---- MODULE Spec2Model ----
(***************************************************************************)
(* Model of the parallel orchestration core of gera-mapas-mentais          *)
(* (backend/agents/graph_parallel.py, backend/agents/nodes/salvar_node.py).*)
(*                                                                         *)
(* One document is driven through execute_graph_parallel: parse, split,    *)
(* fan-out of one processar_parte_completa coroutine per part under an     *)
(* asyncio.Semaphore, aggregation of the gathered results, save.  Every    *)
(* await of an external call (generation, evaluation, asyncio.sleep) is a  *)
(* suspension point and therefore a separate step of the part's task.      *)
(*                                                                         *)
(* The batch scheduler processar_multiplos_htmls_paralelo and the route    *)
(* process_htmls_parallel (backend/api/routes_parallel.py) are a component *)
(* of their own (LoteSpec): every job is one execute_graph_parallel run    *)
(* under the batch semaphore, its part fan-out summarised in one stage.    *)
(*                                                                         *)
(* The sequential mode (backend/agents/graph.py and the nodes under        *)
(* backend/agents/nodes) is GrafoSpec: one step per node of the LangGraph  *)
(* workflow, run on the same MindmapState keys (status, erro_msg,          *)
(* divisoes, partes_processadas, max_tentativas) plus tentativas_revisao.  *)
(*                                                                         *)
(* Three smaller components have specifications of their own: the split    *)
(* node on every response of the division service (DivisorSpec), the two   *)
(* semaphores of a batch with the part tasks of each job (PoolSpec), and   *)
(* the WebSocket ConnectionManager with a broadcast interleaved with       *)
(* connects and disconnects (WsSpec).                                      *)
(***************************************************************************)
EXTENDS Integers, Sequences, FiniteSets, TLC

\* ---------------------------------------------------------------- bounds
MaxPartes == 2
MaxTentativas == 2
MaxWorkers == 2
MaxArquivos == 2
MaxSimultaneos == 2
MaxConexoes == 3
\* the generation calls of one part are counted up to this number
LimiteGeracoes == MaxTentativas + 2

\* ------------------------------------------------------ program constants
NotaAutoAprovado == 5
NotaErro == 0
MinConteudo == 50
NumPartesMin == 2

Partes == 1..MaxPartes
\* the WebSocket objects of the clients that connect to /ws
Conexoes == 1..MaxConexoes
\* samples of AvaliacaoMapa.nota_geral (Field(ge=0, le=10))
Notas == {4, 9}
\* exceptions the generation call can raise (service failure, timeout)
ErrosGeracao == {"GenerationError", "Timeout"}
\* exceptions the evaluation call can raise (service failure, malformed
\* structured verdict)
ErrosRevisao == {"EvaluationError", "MalformedVerdict"}
\* the empty artifact "" of the error result
MapaVazio == <<>>

VARIABLES
    max_tentativas,     \* state["max_tentativas"] (settings.max_tentativas_revisao)
    max_workers,        \* max_workers of processar_partes_paralelo
    llm_ok,             \* get_llm succeeds for the configured providers
    docPc,              \* position of execute_graph_parallel
    status,             \* state["status"]
    erro_msg,           \* state["erro_msg"]
    divisoes,           \* len(state["divisoes"])
    partes_processadas, \* state["partes_processadas"]
    partes_com_erro,    \* local partes_com_erro of processar_partes_paralelo
    arquivos_salvos,    \* part numbers whose .mmd file was written
    semaphore,          \* value of the asyncio.Semaphore(max_workers)
    pc,                 \* position of each part's task_with_semaphore
    tentativa,          \* loop variable of processar_parte_completa
    mapa_gerado,        \* local mapa_gerado of processar_parte_completa
    resultado,          \* what each part's task returned
    chamadas_ger,       \* number of llm_gerador.ainvoke calls issued per part
    chamadas_rev,       \* number of structured_revisor.ainvoke calls per part
    fim,                \* number of finished attempts of each part
    excecoes,           \* how many of them ended in the except branch
    ultimo,             \* outcome of the last finished attempt of each part
    falhas              \* document-level failures that happened (parse/divisao/save)

\* batch scheduler (processar_multiplos_htmls_paralelo) and its route
VARIABLES
    html_files,               \* len(html_files); the i-th job's file name is i
    max_arquivos_simultaneos, \* max_arquivos_simultaneos (max_concurrent_files)
    semaphore_arquivos,       \* value of asyncio.Semaphore(max_arquivos_simultaneos)
    lotePc,                   \* position of the batch: gather, route loop, end
    arqPc,                    \* position of each job's process_with_semaphore
    arquivo,                  \* the state dict of each job's execute_graph_parallel
    resultados,               \* what processar_multiplos_htmls_paralelo returned
    results,                  \* the "results" list of the route's response
    falha_arq,                \* the failure that happened in each job's own stages
    chamadas_arq,             \* external calls made for each job
    ordem_termino             \* the jobs in the order they completed

loteVars == <<html_files, max_arquivos_simultaneos, semaphore_arquivos, lotePc,
              arqPc, arquivo, resultados, results, falha_arq, chamadas_arq,
              ordem_termino>>

\* sequential mode (create_mindmap_graph)
VARIABLES
    tentativas_revisao, \* state["tentativas_revisao"]
    node,               \* the node of the workflow that runs next
    chamada,            \* the external call made by the node that ran last
    gerada,             \* the part that node asked the generation service for
    aprovadas_antes,    \* parts that have been marked approved at some time
    ultima_geracao,     \* the last generation call: part, counter, returned or raised
    geracoes            \* generation calls issued for each part so far

seqVars == <<tentativas_revisao, node, chamada, gerada, aprovadas_antes,
             ultima_geracao, geracoes>>

\* the WebSocket ConnectionManager (backend/api/websocket.py) and the
\* endpoint coroutine of each connection (backend/main.py)
VARIABLES
    active_connections, \* ConnectionManager.active_connections
    ws,                 \* position of each connection's websocket_endpoint
    fechada,            \* connections whose peer has gone: a send to them raises
    bPc,                \* position of the broadcast coroutine
    it,                 \* index held by the list iterator of broadcast's for loop
    connection,         \* loop variable of broadcast
    disconnected,       \* local list "disconnected" of broadcast
    ativas_no_inicio,   \* active_connections when the broadcast was called
    tentadas,           \* connections the broadcast called send_json on
    desconectadas       \* connections disconnect() has been called with

wsVars == <<active_connections, ws, fechada, bPc, it, connection,
            disconnected, ativas_no_inicio, tentadas, desconectadas>>

\* dividir_conteudo_node on its own (backend/agents/nodes/divisor_node.py)
VARIABLES
    response,       \* what structured_llm.ainvoke answers: a DivisaoConteudo
    lista_divisoes, \* state["divisoes"], the list itself
    dPc             \* position of dividir_conteudo_node

divVars == <<response, lista_divisoes, dPc>>

\* the two pools together: the jobs of a batch and the part tasks of each
\* job (processar_multiplos_htmls_paralelo over processar_partes_paralelo)
VARIABLES
    jobPc,            \* position of each job's process_with_semaphore
    partePc,          \* position of each part task of each job
    semaphore_partes  \* value of the semaphore local to each job's fan-out

poolVars == <<jobPc, partePc, semaphore_partes>>

\* the components around the orchestration core
demaisVars == <<wsVars, divVars, poolVars>>

vars == <<max_tentativas, max_workers, llm_ok, docPc, status, erro_msg,
          divisoes, partes_processadas, partes_com_erro, arquivos_salvos,
          semaphore, pc, tentativa, mapa_gerado, resultado,
          chamadas_ger, chamadas_rev, fim, excecoes, ultimo, falhas, loteVars,
          seqVars, demaisVars>>

docVars == <<docPc, status, erro_msg, divisoes, partes_processadas,
             partes_com_erro, arquivos_salvos, falhas>>
inputVars == <<max_tentativas, max_workers, llm_ok>>

\* ------------------------------------------------------------ part results
SemJustificativa == [tipo |-> "nenhuma", n |-> 0, nota |-> 0, erro |-> "-"]

\* the task has not returned anything yet
Pendente ==
    [tipo |-> "pendente", parte_numero |-> 0, mapa_gerado |-> MapaVazio,
     aprovado |-> FALSE, nota_geral |-> 0, tentativas |-> 0,
     justificativa_revisao |-> SemJustificativa]

\* the for loop ended without a return statement: Python returns None
RetornoNone == [Pendente EXCEPT !.tipo = "None"]

\* avaliacao.justificativa of the evaluation of attempt t
JustificativaRevisor(t, nota) ==
    [tipo |-> "revisor", n |-> t, nota |-> nota, erro |-> "-"]

\* f"Auto-aprovado após {max_tentativas} tentativas. Nota original: {nota}"
JustificativaAuto(max, nota) ==
    [tipo |-> "auto", n |-> max, nota |-> nota, erro |-> "-"]

\* f"Erro após {tentativa} tentativas: {str(e)}"
JustificativaErro(t, e) ==
    [tipo |-> "erro", n |-> t, nota |-> 0, erro |-> e]

\* the AvaliacaoMapa returned by the evaluation of attempt t of a part
AvaliacaoMapa(aprovado, nota, t) ==
    [aprovado |-> aprovado, nota_geral |-> nota,
     justificativa |-> JustificativaRevisor(t, nota)]

\* variant: nota_geral copied from the auto-approval dict
ResultadoAprovado_NotaFixa(p, t, mapa, av) ==
    [tipo |-> "PartResult", parte_numero |-> p, mapa_gerado |-> mapa,
     aprovado |-> TRUE, nota_geral |-> NotaAutoAprovado, tentativas |-> t,
     justificativa_revisao |-> av.justificativa]

\* the dict returned when avaliacao.aprovado
ResultadoAprovado(p, t, mapa, av) ==
    [tipo |-> "PartResult", parte_numero |-> p, mapa_gerado |-> mapa,
     aprovado |-> TRUE, nota_geral |-> av.nota_geral, tentativas |-> t,
     justificativa_revisao |-> av.justificativa]

\* variant: the exhausted part keeps the evaluator's rejection
ResultadoAutoAprovado_Rejeitado(p, t, max, mapa, av) ==
    [tipo |-> "PartResult", parte_numero |-> p, mapa_gerado |-> mapa,
     aprovado |-> FALSE, nota_geral |-> NotaAutoAprovado, tentativas |-> t,
     justificativa_revisao |-> JustificativaAuto(max, av.nota_geral)]

\* the dict returned for a rejection on the last attempt
ResultadoAutoAprovado(p, t, max, mapa, av) ==
    [tipo |-> "PartResult", parte_numero |-> p, mapa_gerado |-> mapa,
     aprovado |-> TRUE, nota_geral |-> NotaAutoAprovado, tentativas |-> t,
     justificativa_revisao |-> JustificativaAuto(max, av.nota_geral)]

\* variant: the error result carries an artifact
ResultadoErro_ComMapa(p, t, e) ==
    [tipo |-> "PartResult", parte_numero |-> p, mapa_gerado |-> <<p, t>>,
     aprovado |-> FALSE, nota_geral |-> NotaErro, tentativas |-> t,
     justificativa_revisao |-> JustificativaErro(t, e)]

\* the dict returned for an exception on the last attempt

ResultadoErro(p, t, e) ==
    [tipo |-> "PartResult", parte_numero |-> p, mapa_gerado |-> MapaVazio,
     aprovado |-> FALSE, nota_geral |-> NotaErro, tentativas |-> t,
     justificativa_revisao |-> JustificativaErro(t, e)]

\* ------------------------------------------------- conditions of the code
\* variant: one attempt counter for the whole document, the loop of a part
\* ends when the generation calls of all the parts together reach max
RECURSIVE ChamadasAte(_)
ChamadasAte(n) == IF n = 0 THEN 0 ELSE chamadas_ger[n] + ChamadasAte(n - 1)

NoIntervalo_Compartilhado(t, max) == t >= 1 /\ ChamadasAte(MaxPartes) < max

\* for tentativa in range(1, max_tentativas + 1)
NoIntervalo(t, max) == t >= 1 /\ t < max + 1

\* variant: gives up one attempt early
TentarNovamente_Cedo(t, max) == t + 1 < max

\* if tentativa < max_tentativas  (rejection branch)
TentarNovamente(t, max) == t < max

\* variant: the test for the last attempt is off by one
UltimaTentativa_Depois(t, max) == t = max + 1

\* variant: every exception ends the Part Processor
UltimaTentativa_Sempre(t, max) == t <= max

\* if tentativa == max_tentativas  (except branch)
UltimaTentativa(t, max) == t = max

\* variant: the semaphore never blocks
SemaphoreLocked_Nunca(v) == v < 0

\* asyncio.Semaphore.locked()
SemaphoreLocked(v) == v = 0

\* variant: the semaphore is released on a normal return only
SemaphoreExit_SoRetorno(v, raised) == IF raised THEN v ELSE v + 1

\* async with semaphore: __aexit__ releases on return and on exception alike
SemaphoreExit(v, raised) == v + 1

\* variant: a part that raised fails the document
StatusAgregado_Erro(erros) == IF erros = {} THEN "concluido" ELSE "erro"

\* state["status"] = "concluido" if not partes_com_erro else "parcial"
StatusAgregado(erros) == IF erros = {} THEN "concluido" ELSE "parcial"

Terminal == {"retornou", "levantou"}
EmVoo == {"gerando", "revisando", "dormindo"}

\* ------------------------------------------------------------------ Init
\* no state dict: the job's execute_graph_parallel has not been entered
SemEstado ==
    [html_filename |-> 0, status |-> "-", erro_msg |-> "None",
     divisoes |-> 0, partes_processadas |-> 0]

\* execute_graph_parallel builds the initial state (status "parsing")
DocInicial ==
    /\ docPc = "parse"
    /\ status = "parsing"
    /\ erro_msg = "None"
    /\ divisoes = 0
    /\ partes_processadas = <<>>
    /\ partes_com_erro = {}
    /\ arquivos_salvos = {}
    /\ semaphore = 0
    /\ pc = [p \in Partes |-> "nao_criada"]
    /\ tentativa = [p \in Partes |-> 0]
    /\ mapa_gerado = [p \in Partes |-> MapaVazio]
    /\ resultado = [p \in Partes |-> Pendente]
    /\ chamadas_ger = [p \in Partes |-> 0]
    /\ chamadas_rev = [p \in Partes |-> 0]
    /\ fim = [p \in Partes |-> 0]
    /\ excecoes = [p \in Partes |-> 0]
    /\ ultimo = [p \in Partes |-> "-"]
    /\ falhas = {}

\* the batch scheduler before processar_multiplos_htmls_paralelo has created
\* an awaitable: no job exists
LoteInicial ==
    /\ semaphore_arquivos = 0
    /\ lotePc = "inicio"
    /\ arqPc = <<>>
    /\ arquivo = <<>>
    /\ resultados = <<>>
    /\ results = <<>>
    /\ falha_arq = <<>>
    /\ chamadas_arq = <<>>
    /\ ordem_termino = <<>>

\* no generation call has been made in the run
SemGeracao == [parte |-> 0, tentativa |-> 0, ok |-> FALSE]

\* the initial state of execute_graph (tentativas_revisao 0) at the entry
\* point of the workflow
GrafoInicial ==
    /\ tentativas_revisao = 0
    /\ node = "parse_html"
    /\ chamada = "-"
    /\ gerada = 0
    /\ aprovadas_antes = {}
    /\ ultima_geracao = SemGeracao
    /\ geracoes = [p \in Partes |-> 0]

\* manager = ConnectionManager(): no connection yet, no broadcast running
WsInicial ==
    /\ active_connections = <<>>
    /\ ws = [c \in Conexoes |-> "nova"]
    /\ fechada = {}
    /\ bPc = "idle"
    /\ it = 0
    /\ connection = 0
    /\ disconnected = <<>>
    /\ ativas_no_inicio = {}
    /\ tentadas = {}
    /\ desconectadas = {}

\* LLM01 has not been called
SemResposta == [tipo |-> "None", num_partes |-> 0, partes |-> <<>>]

\* "divisoes": [] of the initial state
DivInicial ==
    /\ response = SemResposta
    /\ lista_divisoes = <<>>
    /\ dPc = "ainvoke"

\* no job of a batch exists
PoolInicial ==
    /\ jobPc = <<>>
    /\ partePc = <<>>
    /\ semaphore_partes = <<>>

DemaisIniciais == WsInicial /\ DivInicial /\ PoolInicial

\* one document run by execute_graph_parallel, no batch
Init ==
    /\ max_tentativas \in 0..MaxTentativas
    /\ max_workers \in {1, MaxWorkers}
    /\ llm_ok \in BOOLEAN
    /\ DocInicial
    /\ html_files = 0
    /\ max_arquivos_simultaneos = 0
    /\ LoteInicial
    /\ GrafoInicial
    /\ DemaisIniciais

partVars == <<semaphore, pc, tentativa, mapa_gerado,
              resultado, chamadas_ger, chamadas_rev, fim, excecoes, ultimo>>

\* what a document run on its own never touches
foraDoDocumento == <<loteVars, seqVars, demaisVars>>
\* what the batch scheduler never touches
foraDoLote == <<docVars, partVars, seqVars, demaisVars>>
\* what the sequential workflow never touches
foraDoGrafo == <<docPc, partes_com_erro, falhas, partVars, loteVars,
                demaisVars>>

\* ------------------------------------------------- document orchestrator
\* parse_html_node, then "if state['status'] == 'erro': raise" caught by the
\* except of execute_graph_parallel, which rewrites status and erro_msg
ParseHtml ==
    /\ docPc = "parse"
    /\ \E ok \in BOOLEAN :
         IF ok
         THEN /\ status' = "dividindo"
              /\ docPc' = "dividir"
              /\ UNCHANGED <<erro_msg, falhas>>
         ELSE /\ status' = "erro"
              /\ erro_msg' = "parse"
              /\ falhas' = falhas \cup {"parse"}
              /\ docPc' = "done"
    /\ UNCHANGED <<divisoes, partes_processadas, partes_com_erro, arquivos_salvos>>
    /\ UNCHANGED inputVars
    /\ UNCHANGED foraDoDocumento
    /\ UNCHANGED partVars

\* dividir_conteudo_node: n = 0 stands for every failure of the division
\* (service error, no part, a part with insufficient content)
DividirConteudo ==
    /\ docPc = "dividir"
    /\ \E n \in 0..MaxPartes :
         IF n > 0
         THEN /\ divisoes' = n
              /\ status' = "gerando"
              /\ partes_processadas' = <<>>
              /\ docPc' = "processar"
              /\ UNCHANGED <<erro_msg, falhas>>
         ELSE /\ status' = "erro"
              /\ erro_msg' = "divisao"
              /\ falhas' = falhas \cup {"divisao"}
              /\ docPc' = "done"
              /\ UNCHANGED <<divisoes, partes_processadas>>
    /\ UNCHANGED <<partes_com_erro, arquivos_salvos>>
    /\ UNCHANGED inputVars
    /\ UNCHANGED foraDoDocumento
    /\ UNCHANGED partVars

\* processar_partes_paralelo up to "await asyncio.gather(...)": one coroutine
\* per part, a fresh Semaphore(max_workers), every wrapper scheduled
IniciarPartes ==
    /\ docPc = "processar"
    /\ semaphore' = max_workers
    /\ pc' = [p \in Partes |-> IF p <= divisoes THEN "aguardando" ELSE pc[p]]
    /\ docPc' = "gather"
    /\ UNCHANGED <<status, erro_msg, divisoes, partes_processadas,
                   partes_com_erro, arquivos_salvos, falhas>>
    /\ UNCHANGED <<tentativa, mapa_gerado, resultado,
                   chamadas_ger, chamadas_rev, fim, excecoes, ultimo>>
    /\ UNCHANGED inputVars
    /\ UNCHANGED foraDoDocumento

\* --------------------------------------------------------- part processor
\* the coroutine returns r (its locals are gone with its frame) and the
\* wrapper leaves "async with semaphore"
Retorna(p, r, sem) ==
    /\ pc' = [pc EXCEPT ![p] = "retornou"]
    /\ resultado' = [resultado EXCEPT ![p] = r]
    /\ semaphore' = SemaphoreExit(sem, FALSE)
    /\ tentativa' = [tentativa EXCEPT ![p] = 0]
    /\ mapa_gerado' = [mapa_gerado EXCEPT ![p] = MapaVazio]

\* head of "for tentativa in range(1, max_tentativas + 1)" for value t: either
\* the body starts and runs to the await of the generation call, or the loop
\* is over and the coroutine falls off its end (returns None)
IniciaTentativa(p, t, sem) ==
    IF NoIntervalo(t, max_tentativas)
    THEN /\ pc' = [pc EXCEPT ![p] = "gerando"]
         /\ tentativa' = [tentativa EXCEPT ![p] = t]
         /\ chamadas_ger' = [chamadas_ger EXCEPT ![p] = @ + 1]
         /\ semaphore' = sem
         /\ UNCHANGED <<resultado, mapa_gerado>>
    ELSE /\ Retorna(p, RetornoNone, sem)
         /\ UNCHANGED chamadas_ger

\* task_with_semaphore acquires the semaphore and awaits the coroutine, which
\* runs get_llm (raises ValueError for an unconfigured provider) and enters
\* the loop
Adquire(p) ==
    /\ docPc = "gather"
    /\ pc[p] = "aguardando"
    /\ ~SemaphoreLocked(semaphore)
    /\ IF llm_ok
       THEN IniciaTentativa(p, 1, semaphore - 1)
       ELSE /\ pc' = [pc EXCEPT ![p] = "levantou"]
            /\ semaphore' = SemaphoreExit(semaphore - 1, TRUE)
            /\ UNCHANGED <<tentativa, mapa_gerado, chamadas_ger, resultado>>
    /\ UNCHANGED <<chamadas_rev, fim, excecoes, ultimo>>
    /\ UNCHANGED docVars
    /\ UNCHANGED inputVars
    /\ UNCHANGED foraDoDocumento

\* the generation call returns: the artifact is cleaned and the evaluation
\* call is issued
GeracaoRetorna(p) ==
    /\ pc[p] = "gerando"
    /\ mapa_gerado' = [mapa_gerado EXCEPT ![p] = <<p, tentativa[p]>>]
    /\ chamadas_rev' = [chamadas_rev EXCEPT ![p] = @ + 1]
    /\ pc' = [pc EXCEPT ![p] = "revisando"]
    /\ UNCHANGED <<semaphore, tentativa, resultado,
                   chamadas_ger, fim, excecoes, ultimo>>
    /\ UNCHANGED docVars
    /\ UNCHANGED inputVars
    /\ UNCHANGED foraDoDocumento

\* "except Exception as e" of processar_parte_completa; e is read only
\* inside the handler, before it sleeps
Excecao(p, e, o) ==
    /\ IF UltimaTentativa(tentativa[p], max_tentativas)
       THEN Retorna(p, ResultadoErro(p, tentativa[p], e), semaphore)
       ELSE /\ pc' = [pc EXCEPT ![p] = "dormindo"]
            /\ UNCHANGED <<resultado, semaphore, tentativa, mapa_gerado>>
    /\ fim' = [fim EXCEPT ![p] = @ + 1]
    /\ excecoes' = [excecoes EXCEPT ![p] = @ + 1]
    /\ ultimo' = [ultimo EXCEPT ![p] = o]

\* the generation call raises
GeracaoLevanta(p) ==
    /\ pc[p] = "gerando"
    /\ \E e \in ErrosGeracao : Excecao(p, e, "exc_ger")
    /\ UNCHANGED <<chamadas_ger, chamadas_rev>>
    /\ UNCHANGED docVars
    /\ UNCHANGED inputVars
    /\ UNCHANGED foraDoDocumento

\* the evaluation call returns a verdict; the local avaliacao is read only
\* in this step, before the next await
RevisaoRetorna(p) ==
    /\ pc[p] = "revisando"
    /\ \E aprovado \in BOOLEAN, nota \in Notas :
         LET av == AvaliacaoMapa(aprovado, nota, tentativa[p]) IN
         /\ IF av.aprovado
            THEN Retorna(p, ResultadoAprovado(p, tentativa[p], mapa_gerado[p], av),
                         semaphore)
            ELSE IF TentarNovamente(tentativa[p], max_tentativas)
                 THEN /\ pc' = [pc EXCEPT ![p] = "dormindo"]
                      /\ UNCHANGED <<resultado, semaphore, tentativa, mapa_gerado>>
                 ELSE Retorna(p, ResultadoAutoAprovado(p, tentativa[p], max_tentativas,
                                                       mapa_gerado[p], av),
                              semaphore)
         /\ ultimo' = [ultimo EXCEPT ![p] = IF aprovado THEN "apr" ELSE "rej"]
    /\ fim' = [fim EXCEPT ![p] = @ + 1]
    /\ UNCHANGED <<excecoes, chamadas_ger, chamadas_rev>>
    /\ UNCHANGED docVars
    /\ UNCHANGED inputVars
    /\ UNCHANGED foraDoDocumento

\* the evaluation call raises (service failure, malformed verdict, timeout)
RevisaoLevanta(p) ==
    /\ pc[p] = "revisando"
    /\ \E e \in ErrosRevisao : Excecao(p, e, "exc_rev")
    /\ UNCHANGED <<chamadas_ger, chamadas_rev>>
    /\ UNCHANGED docVars
    /\ UNCHANGED inputVars
    /\ UNCHANGED foraDoDocumento

\* asyncio.sleep returns and "continue" goes to the next loop iteration
Acorda(p) ==
    /\ pc[p] = "dormindo"
    /\ IniciaTentativa(p, tentativa[p] + 1, semaphore)
    /\ UNCHANGED <<chamadas_rev, fim, excecoes, ultimo>>
    /\ UNCHANGED docVars
    /\ UNCHANGED inputVars
    /\ UNCHANGED foraDoDocumento

\* ------------------------------------------------------------ aggregation
\* indices of the gathered results that are exceptions
Excecoes == {p \in 1..divisoes : pc[p] = "levantou"}

\* the results appended to the local partes_processadas, in index order
RECURSIVE Coletados(_)
Coletados(n) ==
    IF n = 0 THEN <<>>
    ELSE IF pc[n] = "levantou" THEN Coletados(n - 1)
         ELSE Append(Coletados(n - 1), resultado[n])

\* sorted(partes_processadas, key=lambda x: x["parte_numero"]): stable
\* insertion of x after every element whose key is not greater
RECURSIVE Insere_Decrescente(_, _)
Insere_Decrescente(x, s) ==
    IF s = <<>> THEN <<x>>
    ELSE IF x.parte_numero > Head(s).parte_numero THEN <<x>> \o s
         ELSE <<Head(s)>> \o Insere_Decrescente(x, Tail(s))

RECURSIVE Insere(_, _)
Insere(x, s) ==
    IF s = <<>> THEN <<x>>
    ELSE IF x.parte_numero < Head(s).parte_numero THEN <<x>> \o s
         ELSE <<Head(s)>> \o Insere(x, Tail(s))

RECURSIVE Sorted(_)
Sorted(s) ==
    IF s = <<>> THEN <<>>
    ELSE Insere(s[Len(s)], Sorted(SubSeq(s, 1, Len(s) - 1)))

\* "await asyncio.gather(..., return_exceptions=True)" resumes when the first
\* wrapper is done
GatherCompleto_Primeiro == \E p \in 1..divisoes : pc[p] \in Terminal

\* "await asyncio.gather(..., return_exceptions=True)" resumes once every
\* wrapper has returned or raised
GatherCompleto == \A p \in 1..divisoes : pc[p] \in Terminal

\* asyncio.gather(..., return_exceptions=True) resumes once every wrapper has
\* returned or raised; the rest of processar_partes_paralelo and the check
\* "if state['status'] == 'erro': raise" of execute_graph_parallel follow.
\* resultado["aprovado"] on a None result raises TypeError, which leaves
\* processar_partes_paralelo before it updates the state and is caught by
\* the except of execute_graph_parallel.
Agregar ==
    /\ docPc = "gather"
    /\ GatherCompleto
    /\ IF \E p \in 1..divisoes : pc[p] = "retornou" /\ resultado[p].tipo = "None"
       THEN /\ status' = "erro"
            /\ erro_msg' = "TypeError"
            /\ falhas' = falhas \cup {"resultado_none"}
            /\ docPc' = "done"
            /\ UNCHANGED <<partes_processadas, partes_com_erro>>
       ELSE /\ partes_processadas' = Sorted(Coletados(divisoes))
            /\ partes_com_erro' = Excecoes
            /\ status' = StatusAgregado(Excecoes)
            /\ erro_msg' = IF Excecoes # {} THEN "Partes com erro" ELSE erro_msg
            /\ docPc' = IF StatusAgregado(Excecoes) = "erro" THEN "done" ELSE "salvar"
            /\ UNCHANGED falhas
    /\ UNCHANGED <<divisoes, arquivos_salvos>>
    /\ UNCHANGED partVars
    /\ UNCHANGED inputVars
    /\ UNCHANGED foraDoDocumento

\* part numbers of the first k entries of partes_processadas
Numeros(k) == {partes_processadas[i].parte_numero : i \in 1..k}

\* salvar_mindmap_node: k = 0 when every save_mmd_file succeeds, otherwise the
\* k-th call raises and the except branch sets status "erro"
SalvarMindmap ==
    /\ docPc = "salvar"
    /\ \E k \in 0..Len(partes_processadas) :
         IF k = 0
         THEN /\ arquivos_salvos' = Numeros(Len(partes_processadas))
              /\ status' = "concluido"
              /\ UNCHANGED <<erro_msg, falhas>>
         ELSE /\ arquivos_salvos' = Numeros(k - 1)
              /\ status' = "erro"
              /\ erro_msg' = "save"
              /\ falhas' = falhas \cup {"save"}
    /\ docPc' = "done"
    /\ UNCHANGED <<divisoes, partes_processadas, partes_com_erro>>
    /\ UNCHANGED partVars
    /\ UNCHANGED inputVars
    /\ UNCHANGED foraDoDocumento

\* ------------------------------------------------------------------- Next
Next ==
    \/ ParseHtml
    \/ DividirConteudo
    \/ IniciarPartes
    \/ \E p \in Partes : Adquire(p)
    \/ \E p \in Partes : GeracaoRetorna(p)
    \/ \E p \in Partes : GeracaoLevanta(p)
    \/ \E p \in Partes : RevisaoRetorna(p)
    \/ \E p \in Partes : RevisaoLevanta(p)
    \/ \E p \in Partes : Acorda(p)
    \/ Agregar
    \/ SalvarMindmap

Spec == Init /\ [][Next]_vars

\* a document that the division service splits into a single part: the Part
\* Processor on its own
DividirUmaParte == DividirConteudo /\ divisoes' <= 1

NextParte ==
    \/ ParseHtml
    \/ DividirUmaParte
    \/ IniciarPartes
    \/ \E p \in Partes : Adquire(p)
    \/ \E p \in Partes : GeracaoRetorna(p)
    \/ \E p \in Partes : GeracaoLevanta(p)
    \/ \E p \in Partes : RevisaoRetorna(p)
    \/ \E p \in Partes : RevisaoLevanta(p)
    \/ \E p \in Partes : Acorda(p)
    \/ Agregar
    \/ SalvarMindmap

\* every external call and every sleep returns and the event loop runs every
\* ready task
ParteSpec == Init /\ [][NextParte]_vars /\ WF_vars(NextParte)

\* ----------------------------------------------------------- cancellation
\* The task that runs the document is cancelled (Task.cancel) while
\* processar_partes_paralelo awaits the gather: the gather cancels every
\* wrapper that is not done.  CancelledError is raised at the await each one
\* is suspended at (the semaphore, the pending external call, the sleep); it
\* is not an Exception, so "except Exception" of processar_parte_completa
\* does not catch it and "async with semaphore" releases on the way out.  The
\* gather raises CancelledError too, past the result loop of
\* processar_partes_paralelo and past the "except Exception" of
\* execute_graph_parallel: the state dict is left as it was.
Cancelar ==
    /\ docPc = "gather"
    /\ \E p \in 1..divisoes : pc[p] \in EmVoo
    /\ pc' = [p \in Partes |-> IF pc[p] \in EmVoo \cup {"aguardando"}
                                THEN "cancelada" ELSE pc[p]]
    /\ semaphore' = semaphore + Cardinality({p \in Partes : pc[p] \in EmVoo})
    /\ docPc' = "cancelado"
    /\ UNCHANGED <<status, erro_msg, divisoes, partes_processadas,
                   partes_com_erro, arquivos_salvos, falhas>>
    /\ UNCHANGED <<tentativa, mapa_gerado, resultado,
                   chamadas_ger, chamadas_rev, fim, excecoes, ultimo>>
    /\ UNCHANGED inputVars
    /\ UNCHANGED foraDoDocumento

NextCancela ==
    \/ Next
    \/ Cancelar

\* one document run by execute_graph_parallel whose task may be cancelled
CancelaSpec == Init /\ [][NextCancela]_vars

\* ========================================================= batch scheduler
\* variant: a semaphore with one permit too many
SemaphoreArquivos_MaisUm(d) == d + 1

\* semaphore = asyncio.Semaphore(max_arquivos_simultaneos)
SemaphoreArquivos(d) == d

\* the initial state dict of execute_graph_parallel for the file f
EstadoInicial(f) ==
    [html_filename |-> f, status |-> "parsing", erro_msg |-> "None",
     divisoes |-> 0, partes_processadas |-> 0]

\* variant: the stage checks of execute_graph_parallel are missing
DeveInterromper_Nunca(st) == FALSE

\* "if state['status'] == 'erro': raise Exception(state['erro_msg'])"
DeveInterromper(st) == st.status = "erro"

\* "except Exception as e": status "erro", erro_msg = str(e)
CapturaExcecao(st, msg) == [st EXCEPT !.status = "erro", !.erro_msg = msg]

\* the batch in the order the jobs completed
ResultadosDoGather_PorTermino ==
    [i \in 1..html_files |-> arquivo[ordem_termino[i]]]

\* asyncio.gather(*[process_with_semaphore(f) for f in html_files]): the
\* i-th result is what the i-th awaitable returned
ResultadosDoGather == [i \in 1..html_files |-> arquivo[i]]

\* variant: every returned state is reported as a success
Resultado_Sucesso(filename, st) ==
    [file |-> filename, success |-> TRUE, error |-> "None",
     parts |-> st.partes_processadas]

\* body of the route's loop for one (filename, state) pair.  The branch for
\* an Exception result is never taken: execute_graph_parallel catches every
\* Exception and returns its state
Resultado(filename, st) ==
    IF st.status \in {"concluido", "parcial"}
    THEN [file |-> filename, success |-> TRUE, error |-> "None",
          parts |-> st.partes_processadas]
    ELSE [file |-> filename, success |-> FALSE, error |-> st.erro_msg,
          parts |-> 0]

\* zip(uploaded_files, resultados) stops at the shorter of the two
Zip(n, s) == IF n < Len(s) THEN n ELSE Len(s)

\* a request with 1..MaxArquivos files; the route accepts
\* max_concurrent_files in 1..3
InitLote ==
    /\ max_tentativas \in {0, MaxTentativas}
    /\ max_workers = MaxWorkers
    /\ llm_ok \in BOOLEAN
    /\ DocInicial
    /\ html_files \in 1..MaxArquivos
    /\ max_arquivos_simultaneos \in 1..MaxSimultaneos
    /\ LoteInicial
    /\ GrafoInicial
    /\ DemaisIniciais

\* processar_multiplos_htmls_paralelo up to "await asyncio.gather(...)"
IniciarLote ==
    /\ lotePc = "inicio"
    /\ semaphore_arquivos' = SemaphoreArquivos(max_arquivos_simultaneos)
    /\ arqPc' = [j \in 1..html_files |-> "aguardando"]
    /\ arquivo' = [j \in 1..html_files |-> SemEstado]
    /\ falha_arq' = [j \in 1..html_files |-> "-"]
    /\ chamadas_arq' = [j \in 1..html_files |-> {}]
    /\ lotePc' = "gather"
    /\ UNCHANGED <<html_files, max_arquivos_simultaneos, resultados,
                   results, ordem_termino>>
    /\ UNCHANGED inputVars
    /\ UNCHANGED foraDoLote

\* process_with_semaphore enters "async with semaphore" and
\* execute_graph_parallel builds its initial state
AdquireArquivo(j) ==
    /\ lotePc = "gather"
    /\ arqPc[j] = "aguardando"
    /\ ~SemaphoreLocked(semaphore_arquivos)
    /\ semaphore_arquivos' = semaphore_arquivos - 1
    /\ arquivo' = [arquivo EXCEPT ![j] = EstadoInicial(j)]
    /\ arqPc' = [arqPc EXCEPT ![j] = "parse"]
    /\ UNCHANGED <<html_files, max_arquivos_simultaneos, lotePc, resultados,
                   results, falha_arq, chamadas_arq, ordem_termino>>
    /\ UNCHANGED inputVars
    /\ UNCHANGED foraDoLote

\* execute_graph_parallel returns st and process_with_semaphore leaves
\* "async with semaphore"
RetornaArquivo(j, st) ==
    /\ arquivo' = [arquivo EXCEPT ![j] = st]
    /\ arqPc' = [arqPc EXCEPT ![j] = "retornou"]
    /\ semaphore_arquivos' = SemaphoreExit(semaphore_arquivos, FALSE)
    /\ ordem_termino' = Append(ordem_termino, j)

\* after a stage left the state st: the check of the status, then either the
\* except branch and the return, or the next stage
AposEstagio(j, st, proximo) ==
    IF DeveInterromper(st)
    THEN RetornaArquivo(j, CapturaExcecao(st, st.erro_msg))
    ELSE /\ arquivo' = [arquivo EXCEPT ![j] = st]
         /\ arqPc' = [arqPc EXCEPT ![j] = proximo]
         /\ UNCHANGED <<semaphore_arquivos, ordem_termino>>

\* stage 1: parse_html_node
ParseArquivo(j) ==
    /\ arqPc[j] = "parse"
    /\ \E ok \in BOOLEAN :
         IF ok
         THEN /\ AposEstagio(j, [arquivo[j] EXCEPT !.status = "dividindo"],
                             "dividir")
              /\ UNCHANGED falha_arq
         ELSE /\ AposEstagio(j, [arquivo[j] EXCEPT !.status = "erro",
                                                   !.erro_msg = "parse"],
                             "dividir")
              /\ falha_arq' = [falha_arq EXCEPT ![j] = "parse"]
    /\ UNCHANGED <<html_files, max_arquivos_simultaneos, lotePc, resultados,
                   results, chamadas_arq>>
    /\ UNCHANGED inputVars
    /\ UNCHANGED foraDoLote

\* stage 2: dividir_conteudo_node; n = 0 stands for every failure of the
\* division
DividirArquivo(j) ==
    /\ arqPc[j] = "dividir"
    /\ \E n \in 0..MaxPartes :
         IF n > 0
         THEN /\ AposEstagio(j, [arquivo[j] EXCEPT !.status = "gerando",
                                                   !.divisoes = n,
                                                   !.partes_processadas = 0],
                             "processar")
              /\ UNCHANGED falha_arq
         ELSE /\ AposEstagio(j, [arquivo[j] EXCEPT !.status = "erro",
                                                   !.erro_msg = "divisao"],
                             "processar")
              /\ falha_arq' = [falha_arq EXCEPT ![j] = "divisao"]
    /\ chamadas_arq' = [chamadas_arq EXCEPT ![j] = @ \cup {"llm01"}]
    /\ UNCHANGED <<html_files, max_arquivos_simultaneos, lotePc, resultados,
                   results>>
    /\ UNCHANGED inputVars
    /\ UNCHANGED foraDoLote

\* stage 3: processar_partes_paralelo as a whole.  With an unconfigured
\* provider every part task raises before any call; with max_tentativas = 0
\* every task returns None and the aggregation raises TypeError; otherwise
\* every task returns a PartResult after at least one generation call
ProcessarArquivo(j) ==
    /\ arqPc[j] = "processar"
    /\ IF ~llm_ok
       THEN /\ AposEstagio(j, [arquivo[j] EXCEPT
                                  !.partes_processadas = 0,
                                  !.status = StatusAgregado(1..arquivo[j].divisoes),
                                  !.erro_msg = "Partes com erro"],
                           "salvar")
            /\ UNCHANGED <<falha_arq, chamadas_arq>>
       ELSE IF max_tentativas = 0
       THEN /\ RetornaArquivo(j, CapturaExcecao(arquivo[j], "TypeError"))
            /\ falha_arq' = [falha_arq EXCEPT ![j] = "TypeError"]
            /\ UNCHANGED chamadas_arq
       ELSE /\ AposEstagio(j, [arquivo[j] EXCEPT
                                  !.partes_processadas = arquivo[j].divisoes,
                                  !.status = StatusAgregado({})],
                           "salvar")
            /\ \E rev \in SUBSET {"llm03"} :
                  chamadas_arq' =
                      [chamadas_arq EXCEPT ![j] = @ \cup {"llm02"} \cup rev]
            /\ UNCHANGED falha_arq
    /\ UNCHANGED <<html_files, max_arquivos_simultaneos, lotePc, resultados,
                   results>>
    /\ UNCHANGED inputVars
    /\ UNCHANGED foraDoLote

\* stage 4: salvar_mindmap_node and "return state"
SalvarArquivo(j) ==
    /\ arqPc[j] = "salvar"
    /\ \E ok \in BOOLEAN :
         IF ok \/ arquivo[j].partes_processadas = 0
         THEN /\ RetornaArquivo(j, [arquivo[j] EXCEPT !.status = "concluido"])
              /\ UNCHANGED falha_arq
         ELSE /\ RetornaArquivo(j, [arquivo[j] EXCEPT !.status = "erro",
                                                      !.erro_msg = "save"])
              /\ falha_arq' = [falha_arq EXCEPT ![j] = "save"]
    /\ chamadas_arq' = [chamadas_arq EXCEPT ![j] = @ \cup {"save"}]
    /\ UNCHANGED <<html_files, max_arquivos_simultaneos, lotePc, resultados,
                   results>>
    /\ UNCHANGED inputVars
    /\ UNCHANGED foraDoLote

\* the gather of the batch resumes once every process_with_semaphore has
\* returned, and processar_multiplos_htmls_paralelo returns the list
GatherArquivos ==
    /\ lotePc = "gather"
    /\ \A j \in 1..html_files : arqPc[j] = "retornou"
    /\ resultados' = ResultadosDoGather
    /\ lotePc' = "resultados"
    /\ UNCHANGED <<html_files, max_arquivos_simultaneos, semaphore_arquivos,
                   arqPc, arquivo, results, falha_arq, chamadas_arq,
                   ordem_termino>>
    /\ UNCHANGED inputVars
    /\ UNCHANGED foraDoLote

\* the route's loop over zip(uploaded_files, resultados)
ProcessaResultados ==
    /\ lotePc = "resultados"
    /\ results' = [i \in 1..Zip(html_files, resultados) |->
                      Resultado(i, resultados[i])]
    /\ lotePc' = "fim"
    /\ UNCHANGED <<html_files, max_arquivos_simultaneos, semaphore_arquivos,
                   arqPc, arquivo, resultados, falha_arq, chamadas_arq,
                   ordem_termino>>
    /\ UNCHANGED inputVars
    /\ UNCHANGED foraDoLote

NextLote ==
    \/ IniciarLote
    \/ \E j \in DOMAIN arqPc : AdquireArquivo(j)
    \/ \E j \in DOMAIN arqPc : ParseArquivo(j)
    \/ \E j \in DOMAIN arqPc : DividirArquivo(j)
    \/ \E j \in DOMAIN arqPc : ProcessarArquivo(j)
    \/ \E j \in DOMAIN arqPc : SalvarArquivo(j)
    \/ GatherArquivos
    \/ ProcessaResultados

LoteSpec == InitLote /\ [][NextLote]_vars

\* ========================================================= sequential mode
\* the dict gerar_mindmap_node appends for part n ("aprovado": None)
ParteNova(n) ==
    [parte_numero |-> n, mapa_gerado |-> <<n, 0>>, aprovado |-> "None",
     tentativas |-> 1, nota_geral |-> 0, justificativa_revisao |-> "None"]

\* truth value of p.get("aprovado"): None and False are both falsy
Aprovado(x) == x.aprovado = "True"

\* partes_aprovadas = [p for p in state["partes_processadas"] if p.get("aprovado")]
PartesAprovadas(pp) == {i \in 1..Len(pp) : Aprovado(pp[i])}

\* the forced approval written by gerar_mindmap_node and revisar_mindmap_node
ForcaAprovacao(x, nota_de_aprovacao) ==
    [x EXCEPT !.aprovado = "True", !.nota_geral = NotaAutoAprovado,
              !.justificativa_revisao = nota_de_aprovacao]

\* the list pp with its last entry replaced by x (the dict is mutated in place)
NaUltima(pp, x) == [pp EXCEPT ![Len(pp)] = x]

\* should_retry_or_continue on the state revisar_mindmap_node returned;
\* partes_processadas[-1] of an empty list raises IndexError
ShouldRetryOrContinue(tr, mx, pp, total) ==
    IF tr >= mx
    THEN IF Len(pp) < total THEN "gerar_mindmap_loop" ELSE "salvar_mindmap"
    ELSE IF pp = <<>> THEN "IndexError"
    ELSE IF Aprovado(pp[Len(pp)])
         THEN IF Len(pp) < total THEN "gerar_mindmap_loop"
                                 ELSE "salvar_mindmap"
         ELSE "gerar_mindmap"

\* the mapping of add_conditional_edges; an exception in the edge function
\* ends the run of the graph
Destino(r) ==
    CASE r = "gerar_mindmap" -> "gerar_mindmap"
      [] r = "gerar_mindmap_loop" -> "gerar_mindmap"
      [] r = "salvar_mindmap" -> "salvar_mindmap"
      [] OTHER -> "raised"

\* the ghost aprovadas_antes after a step that leaves the list pp
JaAprovadas(pp) ==
    aprovadas_antes \cup {pp[i].parte_numero : i \in PartesAprovadas(pp)}

\* a run of the compiled graph on the initial state of execute_graph
InitGrafo ==
    /\ max_tentativas \in 0..MaxTentativas
    /\ max_workers = MaxWorkers
    /\ llm_ok = TRUE
    /\ DocInicial
    /\ html_files = 0
    /\ max_arquivos_simultaneos = 0
    /\ LoteInicial
    /\ GrafoInicial
    /\ DemaisIniciais

\* parse_html_node, then the edge parse_html -> dividir_conteudo
ParseHtmlNode ==
    /\ node = "parse_html"
    /\ \E ok \in BOOLEAN :
         IF ok
         THEN status' = "dividindo" /\ UNCHANGED erro_msg
         ELSE status' = "erro" /\ erro_msg' = "parse"
    /\ chamada' = "-"
    /\ node' = "dividir_conteudo"
    /\ UNCHANGED <<divisoes, partes_processadas, arquivos_salvos,
                   tentativas_revisao, gerada, aprovadas_antes,
                   ultima_geracao, geracoes>>
    /\ UNCHANGED inputVars
    /\ UNCHANGED foraDoGrafo

\* dividir_conteudo_node (n = 0: the division fails), then the edge
\* dividir_conteudo -> gerar_mindmap
DividirConteudoNode ==
    /\ node = "dividir_conteudo"
    /\ \E n \in 0..MaxPartes :
         IF n > 0
         THEN /\ divisoes' = n
              /\ status' = "gerando"
              /\ partes_processadas' = <<>>
              /\ UNCHANGED erro_msg
         ELSE /\ status' = "erro"
              /\ erro_msg' = "divisao"
              /\ UNCHANGED <<divisoes, partes_processadas>>
    /\ chamada' = "llm01"
    /\ node' = "gerar_mindmap"
    /\ UNCHANGED <<arquivos_salvos, tentativas_revisao, gerada, aprovadas_antes,
                   ultima_geracao, geracoes>>
    /\ UNCHANGED inputVars
    /\ UNCHANGED foraDoGrafo

\* gerar_mindmap_node from "parte_atual = state['divisoes'][parte_index]" on:
\* the generation call for part parte_index + 1 on the list pp with the
\* counter tr, and the update of the state or the except branch
Gera(pp, tr, parte_index, is_retry) ==
    /\ chamada' = "llm02"
    /\ gerada' = parte_index + 1
    /\ tentativas_revisao' = tr
    /\ geracoes' = [geracoes EXCEPT ![parte_index + 1] =
                        IF @ < LimiteGeracoes THEN @ + 1 ELSE @]
    /\ \E ok \in BOOLEAN :
         /\ ultima_geracao' = [parte |-> parte_index + 1, tentativa |-> tr,
                               ok |-> ok]
         /\ IF ok
            THEN /\ partes_processadas' =
                       IF is_retry
                       THEN NaUltima(pp, [pp[Len(pp)] EXCEPT
                                             !.mapa_gerado = <<parte_index + 1, tr>>,
                                             !.tentativas = tr])
                       ELSE Append(pp, ParteNova(parte_index + 1))
                 /\ status' = "revisando"
                 /\ UNCHANGED erro_msg
            ELSE /\ partes_processadas' = pp
                 /\ status' = "erro"
                 /\ erro_msg' = "geracao"

\* gerar_mindmap_node returns without a call: "status = concluido; return"
GeraNada(pp, tr) ==
    /\ chamada' = "-"
    /\ gerada' = 0
    /\ tentativas_revisao' = tr
    /\ partes_processadas' = pp
    /\ status' = "concluido"
    /\ UNCHANGED <<erro_msg, ultima_geracao, geracoes>>

\* gerar_mindmap_node, then the edge gerar_mindmap -> revisar_mindmap
GerarMindmapNode ==
    /\ node = "gerar_mindmap"
    /\ LET pp == partes_processadas
           aprovadas == Cardinality(PartesAprovadas(pp))
       IN  IF aprovadas >= divisoes
           THEN GeraNada(pp, tentativas_revisao)
           ELSE IF pp # <<>> /\ ~Aprovado(pp[Len(pp)])
           THEN IF tentativas_revisao + 1 > max_tentativas
                THEN LET forcada == NaUltima(pp, ForcaAprovacao(pp[Len(pp)],
                                                                "auto_gerador"))
                     IN  IF aprovadas >= divisoes
                         THEN GeraNada(forcada, 0)
                         ELSE Gera(forcada, 0, aprovadas, FALSE)
                ELSE Gera(pp, tentativas_revisao + 1,
                          pp[Len(pp)].parte_numero - 1, TRUE)
           ELSE Gera(pp, 0, aprovadas, FALSE)
    /\ aprovadas_antes' = JaAprovadas(partes_processadas')
    /\ node' = "revisar_mindmap"
    /\ UNCHANGED <<divisoes, arquivos_salvos>>
    /\ UNCHANGED inputVars
    /\ UNCHANGED foraDoGrafo

\* revisar_mindmap_node on a non-empty list: the evaluation call returns a
\* verdict, or raises and the except branch approves the last entry
Revisa_SemAutoAprovacao(pp) ==
    \/ \E aprovado \in BOOLEAN, nota \in Notas :
         partes_processadas' =
             NaUltima(pp, [pp[Len(pp)] EXCEPT
                              !.aprovado = IF aprovado THEN "True" ELSE "False",
                              !.nota_geral = nota,
                              !.justificativa_revisao = "revisor"])
    \/ partes_processadas' =
           NaUltima(pp, ForcaAprovacao(pp[Len(pp)], "auto_erro"))

Revisa(pp) ==
    \/ \E aprovado \in BOOLEAN, nota \in Notas :
         LET avaliada == [pp[Len(pp)] EXCEPT
                             !.aprovado = IF aprovado THEN "True" ELSE "False",
                             !.nota_geral = nota,
                             !.justificativa_revisao = "revisor"]
         IN  partes_processadas' =
                 IF ~aprovado /\ tentativas_revisao >= max_tentativas
                 THEN NaUltima(pp, ForcaAprovacao(avaliada, "auto_revisor"))
                 ELSE NaUltima(pp, avaliada)
    \/ partes_processadas' =
           NaUltima(pp, ForcaAprovacao(pp[Len(pp)], "auto_erro"))

\* revisar_mindmap_node, then the conditional edge should_retry_or_continue
RevisarMindmapNode ==
    /\ node = "revisar_mindmap"
    /\ IF partes_processadas = <<>>
       THEN /\ status' = "erro"
            /\ erro_msg' = "sem_partes"
            /\ chamada' = "-"
            /\ UNCHANGED partes_processadas
       ELSE /\ Revisa(partes_processadas)
            /\ status' = "gerando"
            /\ chamada' = "llm03"
            /\ UNCHANGED erro_msg
    /\ aprovadas_antes' = JaAprovadas(partes_processadas')
    /\ node' = Destino(ShouldRetryOrContinue(tentativas_revisao, max_tentativas,
                                             partes_processadas', divisoes))
    /\ gerada' = 0
    /\ UNCHANGED <<divisoes, arquivos_salvos, tentativas_revisao,
                   ultima_geracao, geracoes>>
    /\ UNCHANGED inputVars
    /\ UNCHANGED foraDoGrafo

\* salvar_mindmap_node (k = 0: every save_mmd_file succeeds, otherwise the
\* k-th one raises), then the edge salvar_mindmap -> END
SalvarMindmapNode ==
    /\ node = "salvar_mindmap"
    /\ \E k \in 0..Len(partes_processadas) :
         IF k = 0
         THEN /\ arquivos_salvos' = Numeros(Len(partes_processadas))
              /\ status' = "concluido"
              /\ UNCHANGED erro_msg
         ELSE /\ arquivos_salvos' = Numeros(k - 1)
              /\ status' = "erro"
              /\ erro_msg' = "save"
    /\ chamada' = IF partes_processadas = <<>> THEN "-" ELSE "save"
    /\ node' = "END"
    /\ gerada' = 0
    /\ UNCHANGED <<divisoes, partes_processadas, tentativas_revisao,
                   aprovadas_antes, ultima_geracao, geracoes>>
    /\ UNCHANGED inputVars
    /\ UNCHANGED foraDoGrafo

NextGrafo ==
    \/ ParseHtmlNode
    \/ DividirConteudoNode
    \/ GerarMindmapNode
    \/ RevisarMindmapNode
    \/ SalvarMindmapNode

GrafoSpec == InitGrafo /\ [][NextGrafo]_vars

\* every external call returns or raises, and the runtime of the graph runs
\* the node the edges have selected
GrafoJusto == InitGrafo /\ [][NextGrafo]_vars /\ WF_vars(NextGrafo)

\* ============================================================== properties
\* processar_parte_completa returned a PartResult dict for part p
Finalizada(p) == pc[p] = "retornou" /\ resultado[p].tipo = "PartResult"

Excs == {"exc_ger", "exc_rev"}

\* every finished attempt of part p was a rejection by the evaluator
SoRejeicoes(p) == fim[p] >= 1 /\ excecoes[p] = 0 /\ ultimo[p] = "rej"

\* attempts 1..k-1 of part p were rejected and attempt k was approved
AprovadaNa(p, k) == fim[p] = k /\ excecoes[p] = 0 /\ ultimo[p] = "apr"

\* the last attempt allowed for part p has ended in an exception
ExcecaoNaUltima(p) ==
    fim[p] >= 1 /\ fim[p] = max_tentativas /\ ultimo[p] \in Excs

\* C1: with max_tentativas >= 1, whatever the generation and evaluation
\* calls do (approve, reject, raise), a part whose calls all return is
\* finalized with a PartResult, and never more than max_tentativas
\* generation calls are issued for it.
C1_Terminacao ==
    /\ [](\A p \in Partes : chamadas_ger[p] <= max_tentativas)
    /\ [](\A p \in Partes :
            (max_tentativas >= 1 /\ pc[p] = "retornou") => Finalizada(p))
    /\ \A p \in Partes :
            (max_tentativas >= 1 /\ pc[p] \in EmVoo) ~> Finalizada(p)

C1_Witness ==
    \E p \in Partes :
        /\ Finalizada(p)
        /\ max_tentativas >= 2
        /\ chamadas_ger[p] = max_tentativas
        /\ excecoes[p] = max_tentativas

\* C2: every returned PartResult is approved, except when the last attempt
\* (attempt = max_tentativas) ended in an exception; a rejection on the last
\* attempt is turned into an approved result.
C2_ForceApproval ==
    \A p \in Partes :
        Finalizada(p) =>
            /\ ~resultado[p].aprovado => ExcecaoNaUltima(p)
            /\ (fim[p] = max_tentativas /\ ultimo[p] = "rej") =>
                   resultado[p].aprovado

C2_Witness ==
    \E p \in Partes :
        /\ Finalizada(p)
        /\ fim[p] = max_tentativas
        /\ ultimo[p] = "rej"
        /\ resultado[p].aprovado

\* C3: with an evaluator that rejects every artifact and no call raising,
\* exactly max_tentativas generation calls and max_tentativas evaluation
\* calls are made and the result is force-approved with tentativas equal
\* to max_tentativas and the auto-approval note as justification.
C3_SempreRejeitado ==
    \A p \in Partes :
        (Finalizada(p) /\ SoRejeicoes(p)) =>
            /\ chamadas_ger[p] = max_tentativas
            /\ chamadas_rev[p] = max_tentativas
            /\ resultado[p].aprovado
            /\ resultado[p].tentativas = max_tentativas
            /\ resultado[p].justificativa_revisao.tipo = "auto"
            /\ resultado[p].justificativa_revisao.n = max_tentativas

C3_Witness ==
    \E p \in Partes :
        /\ Finalizada(p)
        /\ SoRejeicoes(p)
        /\ max_tentativas = MaxTentativas
        /\ resultado[p].tentativas = MaxTentativas

\* C4: when the evaluator first approves on attempt k (attempts 1..k-1
\* rejected, nothing raised), the result has tentativas = k, is approved,
\* carries the evaluator's own score and the justification of the verdict of
\* attempt k (no auto-approval note) with the artifact of attempt k, and
\* exactly k generation calls were made, also for k = max_tentativas.
C4_AprovadoNaTentativaK ==
    \A p \in Partes : \A k \in 1..MaxTentativas :
        (pc[p] \in Terminal /\ AprovadaNa(p, k)) =>
            /\ Finalizada(p)
            /\ resultado[p].tentativas = k
            /\ resultado[p].aprovado
            /\ resultado[p].nota_geral \in Notas
            /\ resultado[p].justificativa_revisao =
                   JustificativaRevisor(k, resultado[p].nota_geral)
            /\ resultado[p].mapa_gerado = <<p, k>>
            /\ chamadas_ger[p] = k
            /\ chamadas_rev[p] = k

C4_Witness ==
    \E p \in Partes :
        /\ Finalizada(p)
        /\ max_tentativas >= 2
        /\ AprovadaNa(p, max_tentativas)
        /\ resultado[p].justificativa_revisao.tipo = "revisor"

\* C5: when the generation or evaluation call raises on the last attempt,
\* the task returns (does not raise) a PartResult with aprovado = FALSE, an
\* empty artifact and the error text in justificativa_revisao.
C5_ExcecaoFinal ==
    \A p \in Partes :
        ExcecaoNaUltima(p) =>
            /\ Finalizada(p)
            /\ ~resultado[p].aprovado
            /\ resultado[p].mapa_gerado = MapaVazio
            /\ resultado[p].tentativas = max_tentativas
            /\ resultado[p].justificativa_revisao.tipo = "erro"
            /\ ultimo[p] = "exc_ger" =>
                   resultado[p].justificativa_revisao.erro \in ErrosGeracao
            /\ ultimo[p] = "exc_rev" =>
                   resultado[p].justificativa_revisao.erro \in ErrosRevisao

C5_Witness ==
    \E p \in Partes :
        /\ Finalizada(p)
        /\ ExcecaoNaUltima(p)
        /\ ultimo[p] = "exc_rev"
        /\ chamadas_rev[p] = max_tentativas
        /\ resultado[p].justificativa_revisao.erro = "MalformedVerdict"

\* an attempt of part p ends in this step with the outcome o
FimDeTentativa(p, o) == fim'[p] = fim[p] + 1 /\ ultimo'[p] = o

\* C6: a generation failure, an evaluation failure, a malformed verdict or a
\* timeout on attempt k < max_tentativas never ends the Part Processor: like
\* a rejection, it consumes that one attempt, and the next step of the part
\* is the generation call of attempt k + 1.
C6_FalhaConsomeUmaTentativa ==
    [][\A p \in Partes :
          /\ \A o \in Excs \cup {"rej"} :
                (FimDeTentativa(p, o) /\ tentativa[p] < max_tentativas) =>
                    /\ pc'[p] = "dormindo"
                    /\ tentativa'[p] = tentativa[p]
                    /\ fim'[p] = tentativa[p]
                    /\ resultado'[p] = Pendente
          /\ (pc[p] = "dormindo" /\ pc'[p] # "dormindo") =>
                    /\ pc'[p] = "gerando"
                    /\ tentativa'[p] = tentativa[p] + 1
                    /\ chamadas_ger'[p] = chamadas_ger[p] + 1
                    /\ chamadas_ger'[p] = tentativa'[p]]_vars

C6_Witness ==
    \E p \in Partes :
        /\ pc[p] = "gerando"
        /\ tentativa[p] = 2
        /\ fim[p] = 1
        /\ ultimo[p] = "exc_rev"

\* every part of the document returned an approved PartResult
TodasAprovadas ==
    \A p \in 1..divisoes : Finalizada(p) /\ resultado[p].aprovado

\* C7: once every part task has completed (and parse, split and save did not
\* fail), the reported status is concluido if every PartResult is approved,
\* and parcial if some part returned aprovado = FALSE or its task raised.
C7_StatusReportado ==
    (docPc = "done" /\ falhas = {}) =>
        /\ TodasAprovadas => status = "concluido"
        /\ ~TodasAprovadas => status = "parcial"

\* a generation or evaluation call of some part of the document failed, or
\* the task of a part raised
ErroDeParte ==
    \E p \in 1..divisoes : excecoes[p] >= 1 \/ pc[p] = "levantou"

\* C8: part-level errors (generation/evaluation failures, including a part
\* that exhausts its attempts by exception, and part tasks that raise) never
\* bring the document to status erro: after aggregation the status is concluido or parcial, and only a
\* failure of the save stage can still end such a document in erro.
C8_ErroDeParteNaoFalhaDocumento ==
    ErroDeParte =>
        /\ docPc = "salvar" => status \in {"concluido", "parcial"}
        /\ (docPc = "done" /\ "save" \notin falhas) =>
               status \in {"concluido", "parcial"}

C8_Witness ==
    /\ docPc = "done"
    /\ status # "erro"
    /\ \E p \in 1..divisoes :
          /\ Finalizada(p)
          /\ ~resultado[p].aprovado
          /\ ultimo[p] = "exc_ger"

\* parts between the start of their first generation call and finalization
EmExecucao == {p \in Partes : pc[p] \in EmVoo}

\* C9: at most max_workers Part Processors of the document are between their
\* first generation call and their finalization.
C9_LimiteDeWorkers ==
    /\ Cardinality(EmExecucao) <= max_workers
    /\ docPc = "gather" => Cardinality(EmExecucao) + semaphore = max_workers

C9_Witness ==
    /\ max_workers = 1
    /\ divisoes >= 2
    /\ \E p, q \in 1..divisoes :
          /\ pc[p] = "revisando"
          /\ pc[q] = "aguardando"

\* the task of part p failed: it raised, or returned aprovado = FALSE
Falhou(p) ==
    \/ pc[p] = "levantou"
    \/ Finalizada(p) /\ ~resultado[p].aprovado

\* C10: when one part's task fails, no sibling is cancelled or skipped: a
\* sibling that waits for the semaphore can acquire it or waits for a part
\* that is still running, and the results are aggregated only when every
\* part has reached its own terminal outcome.
C10_IsolamentoDeFalhas ==
    (\E q \in 1..divisoes : Falhou(q)) =>
        /\ docPc = "gather" =>
              \A p \in 1..divisoes :
                  pc[p] = "aguardando" =>
                      (~SemaphoreLocked(semaphore) \/ EmExecucao # {})
        /\ docPc \in {"gather", "salvar", "done"}
        /\ docPc \in {"salvar", "done"} =>
              \A p \in 1..divisoes :
                  /\ pc[p] \in Terminal
                  /\ pc[p] = "retornou" => resultado[p].tipo # "pendente"

\* with one worker the sibling p can only have started after q failed
C10_Witness ==
    \E p, q \in 1..divisoes :
        /\ max_workers = 1
        /\ Finalizada(q)
        /\ ~resultado[q].aprovado
        /\ pc[p] \in EmVoo

\* the step leaves the gather: it writes the status computed from the
\* results, or hands the document to the save stage
SaiDoGather ==
    /\ docPc = "gather"
    /\ \/ docPc' # "gather"
       \/ status' # status
       \/ partes_processadas' # partes_processadas
       \/ partes_com_erro' # partes_com_erro

\* C11: parallel mode barrier. The document status is computed, and the save
\* stage starts, only after every part task of the document has returned or
\* raised: no part task is waiting or running when the status is written, and
\* none runs afterwards.
C11_Barreira ==
    /\ [](docPc \in {"salvar", "done"} =>
             \A p \in 1..divisoes : pc[p] \in Terminal)
    /\ [][SaiDoGather =>
             \A p \in 1..divisoes : pc[p] \in Terminal /\ pc'[p] = pc[p]]_vars

\* a two-part document in the save stage, one part approved and the other
\* finished by an exception on its last attempt
C11_Witness ==
    /\ docPc = "salvar"
    /\ divisoes >= 2
    /\ \E p, q \in 1..divisoes :
          /\ p # q
          /\ ultimo[p] = "apr"
          /\ ExcecaoNaUltima(q)

\* C12: parallel mode, whatever order the part tasks complete in: the
\* partes_processadas list reported for the document is in strictly ascending
\* parte_numero order.
C12_OrdemCrescente ==
    \A i \in 1..(Len(partes_processadas) - 1) :
        partes_processadas[i].parte_numero < partes_processadas[i + 1].parte_numero

\* two workers, and the second part needed fewer attempts than the first
C12_Witness ==
    /\ docPc \in {"salvar", "done"}
    /\ max_workers >= 2
    /\ Len(partes_processadas) >= 2
    /\ partes_processadas[1].tentativas = 2
    /\ partes_processadas[2].tentativas = 1

\* C13: for a document with N parts that is reported with a non-failed
\* status, the reported results sorted by part number are exactly the part
\* numbers 1..N, each once (no gap, no duplicate).
C13_ResultadosContiguos ==
    (docPc = "done" /\ status \in {"concluido", "parcial"}) =>
        /\ Len(partes_processadas) = divisoes
        /\ \A i \in 1..divisoes : partes_processadas[i].parte_numero = i

\* jobs whose execute_graph_parallel is running, from its entry to its return
Orquestrando ==
    {j \in DOMAIN arqPc :
        arqPc[j] \in {"parse", "dividir", "processar", "salvar"}}

\* C14: batch scheduler with max_arquivos_simultaneos = d: in every reachable
\* state at most d document orchestrators are running (between entering
\* parse and returning their final state).
C14_LimiteDeArquivos ==
    /\ Cardinality(Orquestrando) <= max_arquivos_simultaneos
    /\ lotePc = "gather" =>
          Cardinality(Orquestrando) + semaphore_arquivos = max_arquivos_simultaneos

C14_Witness ==
    /\ max_arquivos_simultaneos = 1
    /\ html_files >= 2
    /\ \E i, j \in DOMAIN arqPc :
          /\ arqPc[i] = "processar"
          /\ arqPc[j] = "aguardando"

\* the returned state of the job j says what happened in j's own stages
EstadoFiel(st, j) ==
    /\ st.html_filename = j
    /\ falha_arq[j] # "-" => (st.status = "erro" /\ st.erro_msg = falha_arq[j])
    /\ falha_arq[j] = "-" => st.status \in {"concluido", "parcial"}

\* the response entry r reports the job j
EntradaFiel(r, j) ==
    /\ r.file = j
    /\ r.success = (falha_arq[j] = "-")
    /\ ~r.success => r.error = falha_arq[j]

\* C15: the batch returns exactly one result per submitted job; a failure in
\* one document's orchestration is captured in that document's result (status
\* erro and the message), never aborts the batch (every job runs to its
\* return) and leaves the outcome of every other document what that
\* document's own stages made it.
C15_UmResultadoPorArquivo ==
    /\ lotePc \in {"resultados", "fim"} =>
          /\ Len(resultados) = html_files
          /\ \A j \in 1..html_files :
                /\ arqPc[j] = "retornou"
                /\ \E i \in 1..Len(resultados) : EstadoFiel(resultados[i], j)
    /\ lotePc = "fim" =>
          /\ Len(results) = html_files
          /\ \A j \in 1..html_files :
                \E i \in 1..Len(results) : EntradaFiel(results[i], j)

\* a batch where one job failed in its save stage and another one succeeded
C15_Witness ==
    /\ lotePc = "fim"
    /\ \E i, j \in 1..html_files :
          /\ falha_arq[i] = "save"
          /\ falha_arq[j] = "-"
          /\ results[j].success
          /\ ~results[i].success

\* C16: the i-th element of the returned results (and of the response) is
\* the result of the i-th input job, for every completion order.
C16_OrdemDosResultados ==
    /\ lotePc \in {"resultados", "fim"} =>
          \A i \in 1..html_files : resultados[i].html_filename = i
    /\ lotePc = "fim" =>
          \A i \in 1..html_files : results[i].file = i

\* the last job of the request completed first
C16_Witness ==
    /\ lotePc = "fim"
    /\ html_files >= 2
    /\ ordem_termino[1] = html_files
    /\ resultados[1].html_filename = 1

FalhaFatal == {"parse", "divisao"}

\* C17: if extraction or splitting fails, the document ends with status erro
\* and the failure's message in erro_msg, and no generation call, no
\* evaluation call and no save is ever performed for it; the other documents
\* of the batch still end concluido or parcial.
C17_FalhaFatal ==
    \A j \in DOMAIN falha_arq :
        /\ falha_arq[j] \in FalhaFatal =>
              /\ arqPc[j] = "retornou"
              /\ arquivo[j].status = "erro"
              /\ arquivo[j].erro_msg = falha_arq[j]
              /\ chamadas_arq[j] \cap {"llm02", "llm03", "save"} = {}
        /\ (lotePc = "fim" /\ falha_arq[j] = "-"
              /\ \E i \in DOMAIN falha_arq : falha_arq[i] \in FalhaFatal) =>
              /\ resultados[j].status \in {"concluido", "parcial"}
              /\ results[j].success

\* the division of one job failed while another job was being processed,
\* which then completed
C17_Witness ==
    /\ lotePc = "fim"
    /\ \E i, j \in 1..html_files :
          /\ falha_arq[i] = "divisao"
          /\ falha_arq[j] = "-"
          /\ "llm02" \in chamadas_arq[j]
          /\ ordem_termino[1] = i
          /\ max_arquivos_simultaneos >= 2

\* number of approved entries of the list pp
NumAprovadas(pp) == Cardinality(PartesAprovadas(pp))

\* C18: Done and Error are absorbing in the sequential state machine. Once a
\* node has set status erro, no later node of the run makes an external call
\* or changes status, partes_processadas or erro_msg; and once status is
\* concluido after Saving, nothing changes it.
C18_TerminaisAbsorventes ==
    [][/\ status = "erro" =>
             /\ chamada' = "-"
             /\ UNCHANGED <<status, partes_processadas, erro_msg>>
       /\ (node = "END" /\ status = "concluido") => UNCHANGED status]_vars

\* C19: the transition out of Revising goes to Saving if and only if the
\* number of approved results equals the number of parts, and goes back to
\* Generating whenever fewer results are approved than there are parts.
C19_SaidaDeRevising ==
    [][node = "revisar_mindmap" =>
          /\ node' = "salvar_mindmap" <=>
                 NumAprovadas(partes_processadas') = divisoes
          /\ NumAprovadas(partes_processadas') < divisoes =>
                 node' = "gerar_mindmap"]_vars

\* C20: after the last processed part has been approved or force-approved
\* and parts remain, the next Generating step processes a different part; no
\* part number is ever appended to partes_processadas twice, and a part that
\* has been approved is never generated again.
C20_ProximaParteDiferente ==
    /\ [](\A i, j \in 1..Len(partes_processadas) :
             i # j => partes_processadas[i].parte_numero #
                          partes_processadas[j].parte_numero)
    /\ [][(node = "gerar_mindmap" /\ chamada' = "llm02") =>
             /\ gerada' \notin aprovadas_antes
             /\ (partes_processadas # <<>>
                   /\ Aprovado(partes_processadas[Len(partes_processadas)])) =>
                    gerada' # partes_processadas[Len(partes_processadas)].parte_numero]_vars

\* the branch "tentativas_revisao > max_tentativas" of gerar_mindmap_node is
\* never taken: the counter never exceeds max_tentativas
ContadorLimitado == tentativas_revisao <= max_tentativas

\* a sequential run that ends in concluido reports the parts 1..N, each once
SequencialContiguo ==
    (node = "END" /\ status = "concluido") =>
        /\ Len(partes_processadas) = divisoes
        /\ \A i \in 1..divisoes : partes_processadas[i].parte_numero = i

\* a Generating step that issues a generation call
PassoDeGeracao == node = "gerar_mindmap" /\ chamada' = "llm02"

\* C21: the retry counter tentativas_revisao is 0 whenever the generation of
\* a part other than the previously generated one begins; it changes only in
\* Generating steps, and it is incremented (by one) only by a Generating step
\* that generates the same part as the previous Generating step did.
C21_ContadorPorParte ==
    [][/\ PassoDeGeracao =>
             /\ gerada' # ultima_geracao.parte => tentativas_revisao' = 0
             /\ tentativas_revisao' \in {0, tentativas_revisao,
                                         tentativas_revisao + 1}
             /\ (tentativas_revisao' = tentativas_revisao + 1) =>
                    gerada' = ultima_geracao.parte
       /\ ~PassoDeGeracao =>
             tentativas_revisao' \in {0, tentativas_revisao}]_vars

\* the last entry of the list pp
Ultima(pp) == pp[Len(pp)]

\* this Revising step force-approves the part it has just seen rejected
ForcaNaRevisao ==
    /\ node = "revisar_mindmap"
    /\ partes_processadas # <<>>
    /\ Ultima(partes_processadas').justificativa_revisao = "auto_revisor"

\* C22: in a run where no call raises (max_tentativas >= 1), no part gets
\* more than max_tentativas generation calls; a part rejected at every review
\* is force-approved when exactly max_tentativas generation calls have been
\* made for it, and the machine then goes on to the next part, or to Saving
\* after the last part.
C22_ExaustaoSequencial ==
    [][(max_tentativas >= 1 /\ erro_msg' = "None") =>
          /\ \A p \in Partes : geracoes'[p] <= max_tentativas
          /\ ForcaNaRevisao =>
                /\ geracoes[Ultima(partes_processadas).parte_numero] = max_tentativas
                /\ node' = IF Len(partes_processadas') < divisoes
                           THEN "gerar_mindmap" ELSE "salvar_mindmap"]_vars

\* the run of the graph is over: the edge to END was taken, or an exception
\* left the graph
FimDoGrafo == node \in {"END", "raised"}

\* C23: provided every external call returns or raises, a sequential run
\* eventually ends (in Done or in Error); it does not cycle between
\* Generating and Revising forever, also when the generation call keeps
\* failing.
C23_TerminacaoSequencial == <>FimDoGrafo

\* C24: an evaluation call is issued only right after the generation call of
\* the same attempt has returned an artifact, and the artifact it evaluates
\* is the one that generation call produced (same part, same attempt).
C24_GeracaoAntesDaRevisao ==
    [][(node = "revisar_mindmap" /\ chamada' = "llm03") =>
          /\ chamada = "llm02"
          /\ ultima_geracao.ok
          /\ Ultima(partes_processadas).mapa_gerado =
                 <<ultima_geracao.parte, ultima_geracao.tentativa>>]_vars

\* the part p had not returned when the cancellation arrived
Inacabada(p) == pc[p] = "cancelada"

\* C25: after a cancellation that arrives while Part Processors are in
\* flight, every part of the document is in the reported results, the
\* unfinished ones as results that are not approved; and no in-flight Part
\* Processor is stopped in the middle of an external call.
C25_Cancelamento ==
    [][docPc' = "cancelado" =>
          /\ \A p \in 1..divisoes :
                \E i \in 1..Len(partes_processadas') :
                    /\ partes_processadas'[i].parte_numero = p
                    /\ Inacabada(p)' => ~partes_processadas'[i].aprovado
          /\ \A p \in 1..divisoes :
                pc[p] \in {"gerando", "revisando"} => ~Inacabada(p)']_vars

\* C26: a result that has been approved (or force-approved) is never changed
\* again: no later step of the run removes the entry or changes its approved
\* flag, score, artifact or justification.
C26_AprovadoImutavel ==
    [][\A i \in 1..Len(partes_processadas) :
          Aprovado(partes_processadas[i]) =>
              /\ i <= Len(partes_processadas')
              /\ partes_processadas'[i] = partes_processadas[i]]_vars

\* C27: erro_msg is set only while status is erro; in particular a document
\* whose status is concluido or parcial has no erro_msg.
C27_ErroMsgSoComErro == erro_msg # "None" => status = "erro"

\* what belongs to the Part Processor of part p
DaParte(p) ==
    <<tentativa[p], mapa_gerado[p], resultado[p], chamadas_ger[p],
      chamadas_rev[p], fim[p], excecoes[p], ultimo[p]>>

\* the kind of justification the last outcome o of a part leads to
TipoPorResultado(o) ==
    CASE o = "apr" -> "revisor"
      [] o = "rej" -> "auto"
      [] OTHER -> "erro"

\* the Part Processor of part p has returned what its own attempts decide:
\* it stopped at its own approval or at the end of its own budget, after one
\* generation call per attempt of its own, with the verdict of its own last
\* attempt
DecididaPorSi(p) ==
    /\ ultimo[p] = "apr" \/ fim[p] = max_tentativas
    /\ chamadas_ger[p] = fim[p]
    /\ Finalizada(p) =>
          /\ resultado[p].parte_numero = p
          /\ resultado[p].tentativas = fim[p]
          /\ resultado[p].aprovado = (ultimo[p] \in {"apr", "rej"})
          /\ resultado[p].justificativa_revisao.tipo = TipoPorResultado(ultimo[p])

\* C28: retry budgets are per part. A step of the Part Processor of part p
\* changes no attempt counter, artifact, call count or result of another part;
\* and, for every interleaving and whatever the siblings' outcomes are, a part
\* returns exactly when its own attempts end in an approval or use up
\* max_tentativas, with the number of attempts and the verdict that its own
\* outcomes determine.
C28_OrcamentoPorParte ==
    [][\A p \in Partes :
          (pc'[p] # pc[p] /\ docPc = "gather") =>
              /\ \A q \in Partes \ {p} : DaParte(q)' = DaParte(q)
              /\ pc'[p] = "retornou" => DecididaPorSi(p)']_vars

\* two parts in flight together, the first approved at once, the second one
\* finalized on its last attempt after a failure of its own
C28_Witness ==
    /\ max_workers >= 2
    /\ max_tentativas >= 2
    /\ Finalizada(1)
    /\ Finalizada(2)
    /\ fim[1] = 1
    /\ ultimo[1] = "apr"
    /\ fim[2] = max_tentativas
    /\ excecoes[2] >= 1

\* the last generation call of the run raised
GeracaoFalhou == ultima_geracao.parte # 0 /\ ~ultima_geracao.ok

\* C29: a failure of the generation call does not crash the sequential run
\* and counts as a failed attempt of the part being generated: no exception
\* leaves the graph; the Revising step that follows evaluates and modifies no
\* result of another part; and while attempts remain for that part, the next
\* generation call is for the same part.
C29_FalhaDeGeracao ==
    [][/\ (node = "revisar_mindmap" /\ GeracaoFalhou) =>
             /\ node' # "raised"
             /\ chamada' = "llm03" =>
                    Ultima(partes_processadas).parte_numero = ultima_geracao.parte
             /\ \A i \in 1..Len(partes_processadas) :
                    partes_processadas[i].parte_numero # ultima_geracao.parte =>
                        partes_processadas'[i] = partes_processadas[i]
       /\ (PassoDeGeracao /\ GeracaoFalhou
             /\ geracoes[ultima_geracao.parte] < max_tentativas) =>
             gerada' = ultima_geracao.parte]_vars

\* this Revising step marks the last entry approved
MarcaAprovada ==
    /\ node = "revisar_mindmap"
    /\ partes_processadas # <<>>
    /\ ~Aprovado(Ultima(partes_processadas))
    /\ Aprovado(Ultima(partes_processadas'))

\* C30: in the sequential machine an evaluation call that raises (or returns
\* a malformed verdict) counts as a failed attempt: a part is marked approved
\* only by the evaluator's approval or when its attempts are exhausted, and
\* after an evaluation failure before the last attempt the same part goes
\* back to Generating.
C30_FalhaDeRevisao ==
    [][MarcaAprovada =>
          \/ Ultima(partes_processadas').justificativa_revisao = "revisor"
          \/ tentativas_revisao >= max_tentativas]_vars

\* the save of the entry at position i of partes_processadas raised: the loop
\* of salvar_mindmap_node had written the files of the entries before it
FalhouAoSalvar(i) ==
    /\ docPc = "done"
    /\ "save" \in falhas
    /\ i = Cardinality(arquivos_salvos) + 1

\* C31: a persistence failure is local to its part: when the save of one
\* part's artifact fails, the approved results of the other parts are still
\* saved, and the document is still reported (status is not erro).
C31_FalhaDeSalvamentoLocal ==
    \A i \in 1..Len(partes_processadas) :
        FalhouAoSalvar(i) =>
            \A k \in 1..Len(partes_processadas) :
                (k # i /\ partes_processadas[k].aprovado) =>
                    /\ partes_processadas[k].parte_numero \in arquivos_salvos
                    /\ status # "erro"

\* ===================================================== WebSocket manager
\* "websocket in self.active_connections"
Ativa(c) == \E i \in 1..Len(active_connections) : active_connections[i] = c

\* list.remove(x): the list without the first item equal to x
RECURSIVE Remove(_, _)
Remove(s, x) ==
    IF s = <<>> THEN <<>>
    ELSE IF Head(s) = x THEN Tail(s)
         ELSE <<Head(s)>> \o Remove(Tail(s), x)

\* ConnectionManager.disconnect applied to the list s
Disconnect(s, c) == IF \E i \in 1..Len(s) : s[i] = c THEN Remove(s, c) ELSE s

\* "for conn in disconnected: self.disconnect(conn)" applied to the list s
RECURSIVE DisconnectTodas(_, _)
DisconnectTodas(s, d) ==
    IF d = <<>> THEN s
    ELSE DisconnectTodas(Disconnect(s, Head(d)), Tail(d))

\* websocket.send_json raises when the peer of the connection has gone
SendJsonLevanta(c) == c \in fechada

wsBroadcastVars == <<bPc, it, connection, disconnected, ativas_no_inicio,
                     tentadas>>

\* what the WebSocket manager never touches
foraDoWs == <<inputVars, docVars, partVars, loteVars, seqVars, divVars,
             poolVars>>

\* websocket_endpoint up to the suspension in the welcome message of
\* ConnectionManager.connect: accept, append
Connect(c) ==
    /\ ws[c] = "nova"
    /\ active_connections' = Append(active_connections, c)
    /\ ws' = [ws EXCEPT ![c] = "send_message"]
    /\ UNCHANGED <<fechada, desconectadas>>
    /\ UNCHANGED wsBroadcastVars
    /\ UNCHANGED foraDoWs

\* send_message of the welcome message returns (its except branch calls
\* disconnect) and the endpoint suspends in websocket.receive_text()
SendMessage(c) ==
    /\ ws[c] = "send_message"
    /\ IF SendJsonLevanta(c)
       THEN /\ active_connections' = Disconnect(active_connections, c)
            /\ desconectadas' = desconectadas \cup {c}
       ELSE UNCHANGED <<active_connections, desconectadas>>
    /\ ws' = [ws EXCEPT ![c] = "receive_text"]
    /\ UNCHANGED fechada
    /\ UNCHANGED wsBroadcastVars
    /\ UNCHANGED foraDoWs

\* the client of an accepted connection goes away
Fecha(c) ==
    /\ ws[c] \in {"send_message", "receive_text"}
    /\ c \notin fechada
    /\ fechada' = fechada \cup {c}
    /\ UNCHANGED <<active_connections, ws, desconectadas>>
    /\ UNCHANGED wsBroadcastVars
    /\ UNCHANGED foraDoWs

\* receive_text raises WebSocketDisconnect and the endpoint calls
\* manager.disconnect(websocket)
EndpointDisconnect(c) ==
    /\ ws[c] = "receive_text"
    /\ c \in fechada
    /\ active_connections' = Disconnect(active_connections, c)
    /\ desconectadas' = desconectadas \cup {c}
    /\ ws' = [ws EXCEPT ![c] = "fim"]
    /\ UNCHANGED fechada
    /\ UNCHANGED wsBroadcastVars
    /\ UNCHANGED foraDoWs

\* broadcast is called (by send_progress, send_log or send_completion): it
\* returns at once on an empty list, otherwise it creates the list iterator
Broadcast ==
    /\ bPc = "idle"
    /\ ativas_no_inicio' = {c \in Conexoes : Ativa(c)}
    /\ tentadas' = {}
    /\ disconnected' = <<>>
    /\ it' = 0
    /\ connection' = 0
    /\ bPc' = IF active_connections = <<>> THEN "idle" ELSE "for"
    /\ UNCHANGED <<active_connections, ws, fechada, desconectadas>>
    /\ UNCHANGED foraDoWs

\* the next() of the list iterator: the item at its index in the list as it
\* is now, and "await connection.send_json(message)" suspends; or the end of
\* the loop, "for conn in disconnected: self.disconnect(conn)" and the
\* return to the caller (no await in between)
ForConnection ==
    /\ bPc = "for"
    /\ IF it < Len(active_connections)
       THEN /\ connection' = active_connections[it + 1]
            /\ it' = it + 1
            /\ tentadas' = tentadas \cup {active_connections[it + 1]}
            /\ bPc' = "send_json"
            /\ UNCHANGED <<active_connections, desconectadas>>
       ELSE /\ active_connections' =
                   DisconnectTodas(active_connections, disconnected)
            /\ desconectadas' =
                   desconectadas
                       \cup {disconnected[i] : i \in 1..Len(disconnected)}
            /\ bPc' = "idle"
            /\ UNCHANGED <<connection, it, tentadas>>
    /\ UNCHANGED <<disconnected, ativas_no_inicio>>
    /\ UNCHANGED <<ws, fechada>>
    /\ UNCHANGED foraDoWs

\* the send returns, or raises and the except branch appends the connection
\* to disconnected
SendJson ==
    /\ bPc = "send_json"
    /\ disconnected' = IF SendJsonLevanta(connection)
                       THEN Append(disconnected, connection)
                       ELSE disconnected
    /\ bPc' = "for"
    /\ UNCHANGED <<it, connection, ativas_no_inicio, tentadas>>
    /\ UNCHANGED <<active_connections, ws, fechada, desconectadas>>
    /\ UNCHANGED foraDoWs

\* the manager of a freshly started application; no document is processed
InitWs ==
    /\ max_tentativas = MaxTentativas
    /\ max_workers = MaxWorkers
    /\ llm_ok = TRUE
    /\ DocInicial
    /\ html_files = 0
    /\ max_arquivos_simultaneos = 0
    /\ LoteInicial
    /\ GrafoInicial
    /\ DemaisIniciais

NextWs ==
    \/ \E c \in Conexoes : Connect(c)
    \/ \E c \in Conexoes : SendMessage(c)
    \/ \E c \in Conexoes : Fecha(c)
    \/ \E c \in Conexoes : EndpointDisconnect(c)
    \/ Broadcast
    \/ ForConnection
    \/ SendJson

WsSpec == InitWs /\ [][NextWs]_vars

\* the step in which the running broadcast returns to its caller
BroadcastRetorna == bPc = "for" /\ bPc' = "idle"

\* some send of the broadcast raised
HouveFalhaDeEntrega == disconnected # <<>>

\* C32: a delivery failure to one observer does not stop the broadcast:
\* when a broadcast in which a send failed returns, the message has been
\* attempted on every connection that is left active, and no connection
\* whose send failed is left in active_connections.
C32_FalhaDeEntrega ==
    [][(BroadcastRetorna /\ HouveFalhaDeEntrega) =>
           /\ \A c \in Conexoes : Ativa(c)' => c \in tentadas
           /\ \A i \in 1..Len(disconnected) : ~Ativa(disconnected[i])']_vars

\* ================================================================ splitter
\* samples of len(parte.conteudo_completo): empty, just below and at the
\* minimum length
Tamanhos == {0, MinConteudo - 1, MinConteudo}

\* samples of ParteDivisao.numero, an int the division service chooses
NumerosDoLLM == 0..MaxPartes

\* ParteDivisao: the content is represented by its length
ParteDivisao == [numero : NumerosDoLLM, conteudo_completo : Tamanhos]

\* the lists of at most n parts
RECURSIVE ListasDePartes(_)
ListasDePartes(n) ==
    IF n = 0 THEN {<<>>}
    ELSE LET menores == ListasDePartes(n - 1)
         IN  menores \cup {Append(l, x) : l \in {m \in menores : Len(m) = n - 1},
                                         x \in ParteDivisao}

\* DivisaoConteudo: num_partes is validated by Field(ge=2, le=10), the
\* length of partes is not
DivisaoConteudo ==
    [tipo : {"DivisaoConteudo"}, num_partes : NumPartesMin..(MaxPartes + 1),
     partes : ListasDePartes(MaxPartes)]

\* get_llm, the call or the parsing of the structured output raised
RespostaExcecao == [SemResposta EXCEPT !.tipo = "Exception"]

\* "not parte.conteudo_completo or len(parte.conteudo_completo) < 50"
ConteudoInsuficiente_SoVazio(parte) == parte.conteudo_completo = 0

ConteudoInsuficiente(parte) ==
    parte.conteudo_completo = 0 \/ parte.conteudo_completo < MinConteudo

\* the validation of the response raises ValueError
RespostaInvalida(r) ==
    \/ r.partes = <<>>
    \/ \E i \in 1..Len(r.partes) : ConteudoInsuficiente(r.partes[i])

\* the dict appended to divisoes_processadas for a part of the response
DivisaoProcessada(parte) ==
    [numero |-> parte.numero, conteudo |-> parte.conteudo_completo]

\* what dividir_conteudo_node on its own never touches
foraDoDivisor == <<inputVars, docPc, partes_com_erro, arquivos_salvos, falhas,
                   partVars, loteVars, seqVars, wsVars, poolVars>>

\* "response = await structured_llm.ainvoke(...)": the service answers with
\* a DivisaoConteudo, or get_llm / the call / the parsing of the structured
\* output raises
LLM01Responde ==
    /\ dPc = "ainvoke"
    /\ response' \in DivisaoConteudo \cup {RespostaExcecao}
    /\ dPc' = "valida"
    /\ UNCHANGED <<status, erro_msg, divisoes, partes_processadas,
                   lista_divisoes>>
    /\ UNCHANGED foraDoDivisor

\* the rest of dividir_conteudo_node: validation, divisoes_processadas, the
\* update of the state; its except branch on any exception
ValidaResposta ==
    /\ dPc = "valida"
    /\ IF response.tipo = "Exception"
       THEN /\ status' = "erro"
            /\ erro_msg' = "Erro na divisao de conteudo"
            /\ UNCHANGED <<lista_divisoes, divisoes, partes_processadas>>
       ELSE IF RespostaInvalida(response)
       THEN /\ status' = "erro"
            /\ erro_msg' = "Erro na divisao de conteudo"
            /\ UNCHANGED <<lista_divisoes, divisoes, partes_processadas>>
       ELSE /\ lista_divisoes' =
                   [i \in 1..Len(response.partes) |->
                        DivisaoProcessada(response.partes[i])]
            /\ divisoes' = Len(response.partes)
            /\ status' = "gerando"
            /\ partes_processadas' = <<>>
            /\ UNCHANGED erro_msg
    /\ dPc' = "return"
    /\ UNCHANGED response
    /\ UNCHANGED foraDoDivisor

\* the state dividir_conteudo_node receives from parse_html_node
InitDivisor ==
    /\ max_tentativas = MaxTentativas
    /\ max_workers = MaxWorkers
    /\ llm_ok = TRUE
    /\ DocInicial
    /\ html_files = 0
    /\ max_arquivos_simultaneos = 0
    /\ LoteInicial
    /\ GrafoInicial
    /\ DemaisIniciais

NextDivisor ==
    \/ LLM01Responde
    \/ ValidaResposta

DivisorSpec == InitDivisor /\ [][NextDivisor]_vars

\* the response has at least one part and all its parts are usable
RespostaUtilizavel(r) ==
    /\ r.partes # <<>>
    /\ \A i \in 1..Len(r.partes) : r.partes[i].conteudo_completo >= MinConteudo

\* C33: when the division service returns no part, or a part whose content
\* is empty or shorter than 50 characters, the split fails (status erro,
\* erro_msg set) and divisoes stays empty; a response whose parts are all
\* usable does not fail, whatever count it declares.
C33_DivisaoInvalida ==
    (dPc = "return" /\ response.tipo = "DivisaoConteudo") =>
        /\ ~RespostaUtilizavel(response) =>
               /\ status = "erro"
               /\ erro_msg # "None"
               /\ lista_divisoes = <<>>
               /\ divisoes = 0
        /\ RespostaUtilizavel(response) =>
               /\ status = "gerando"
               /\ Len(lista_divisoes) = Len(response.partes)

\* a response with a usable part and a part one character too short failed,
\* and nothing of it was emitted
C33_Witness ==
    /\ dPc = "return"
    /\ response.tipo = "DivisaoConteudo"
    /\ \E i, j \in 1..Len(response.partes) :
          /\ response.partes[i].conteudo_completo = MinConteudo
          /\ response.partes[j].conteudo_completo = MinConteudo - 1
    /\ status = "erro"
    /\ lista_divisoes = <<>>

\* C34: whenever the split succeeds, divisoes holds at least one part, every
\* part has non-empty content, and the numero of the part at position k is k.
C34_GarantiaDeSaida ==
    (dPc = "return" /\ status # "erro") =>
        /\ Len(lista_divisoes) >= 1
        /\ \A k \in 1..Len(lista_divisoes) :
              /\ lista_divisoes[k].conteudo > 0
              /\ lista_divisoes[k].numero = k

\* the exhaustion branch of gerar_mindmap_node has run: it leaves its
\* justification on the entry it approved
RamoDeExaustaoTomado ==
    \E i \in 1..Len(partes_processadas) :
        partes_processadas[i].justificativa_revisao = "auto_gerador"

\* C35: in every reachable state of the sequential workflow
\* 0 <= tentativas_revisao <= max_tentativas, and the exhaustion branch of
\* gerar_mindmap_node (tentativas_revisao > max_tentativas) is never taken.
C35_ContadorNoIntervalo ==
    /\ tentativas_revisao >= 0
    /\ tentativas_revisao <= max_tentativas
    /\ ~RamoDeExaustaoTomado

\* the counter has reached max_tentativas >= 1 on a retry and the regenerated
\* part is about to be reviewed
C35_Witness ==
    /\ node = "revisar_mindmap"
    /\ max_tentativas >= 1
    /\ tentativas_revisao = max_tentativas
    /\ ultima_geracao.tentativa = max_tentativas

\* the entries of partes_processadas that are final: the part is approved
\* and the workflow has moved past its review
PartesFinalizadas ==
    {i \in 1..Len(partes_processadas) :
        /\ Aprovado(partes_processadas[i])
        /\ (i < Len(partes_processadas) \/ node \in {"salvar_mindmap", "END"})}

\* C36: when a part is finalized, its recorded tentativas equals the number
\* of generation calls that were made for that part (stated for the runs in
\* which no call failed: erro_msg was never set).
C36_TentativasRegistradas ==
    erro_msg = "None" =>
        \A i \in PartesFinalizadas :
            LET parte == partes_processadas[i]
            IN  geracoes[parte.parte_numero] < LimiteGeracoes =>
                    parte.tentativas = geracoes[parte.parte_numero]

\* C37: for every configured max_tentativas >= 0, including 0, every part
\* task that returns returns a PartResult, and the aggregation of
\* processar_partes_paralelo leaves the document in status concluido or
\* parcial, never in erro.
C37_OrcamentoZero ==
    /\ \A p \in 1..divisoes :
          pc[p] = "retornou" => resultado[p].tipo = "PartResult"
    /\ (docPc \in {"salvar", "done"} /\ GatherCompleto /\ divisoes >= 1
          /\ "save" \notin falhas) =>
           status \in {"concluido", "parcial"}

\* ========================================================= the two pools
\* variant: the semaphore of a job's parts has one permit too many
SemaphorePartes_MaisUm(w) == w + 1

\* semaphore = asyncio.Semaphore(max_workers), created by each call of
\* processar_partes_paralelo
SemaphorePartes(w) == w

\* part tasks suspended in a generation or an evaluation call
EmChamada == {"gerando", "revisando"}

\* the calls in flight over the whole batch
ChamadasEmVoo ==
    {<<j, p>> \in (DOMAIN jobPc) \X Partes :
        p \in DOMAIN partePc[j] /\ partePc[j][p] \in EmChamada}

\* what the two pools never touch
foraDoPool == <<max_tentativas, llm_ok, docVars, partVars, seqVars, wsVars,
                divVars, arqPc, arquivo, resultados, results, falha_arq,
                chamadas_arq, ordem_termino>>

\* processar_multiplos_htmls_paralelo up to "await asyncio.gather(...)"
IniciarJobs ==
    /\ lotePc = "inicio"
    /\ semaphore_arquivos' = SemaphoreArquivos(max_arquivos_simultaneos)
    /\ jobPc' = [j \in 1..html_files |-> "aguardando"]
    /\ partePc' = [j \in 1..html_files |-> <<>>]
    /\ semaphore_partes' = [j \in 1..html_files |-> 0]
    /\ lotePc' = "gather"
    /\ UNCHANGED <<html_files, max_arquivos_simultaneos, max_workers>>
    /\ UNCHANGED foraDoPool

\* process_with_semaphore enters "async with semaphore" and
\* execute_graph_parallel starts its parse and split stages
AdquireJob(j) ==
    /\ lotePc = "gather"
    /\ jobPc[j] = "aguardando"
    /\ ~SemaphoreLocked(semaphore_arquivos)
    /\ semaphore_arquivos' = semaphore_arquivos - 1
    /\ jobPc' = [jobPc EXCEPT ![j] = "dividir"]
    /\ UNCHANGED <<partePc, semaphore_partes, lotePc, html_files,
                   max_arquivos_simultaneos, max_workers>>
    /\ UNCHANGED foraDoPool

\* the split returns n parts (one, or as many as the model allows) and
\* processar_partes_paralelo creates its
\* semaphore and one task per part; or parse or split failed and
\* execute_graph_parallel returns, leaving "async with semaphore"
FanOut(j) ==
    /\ lotePc = "gather"
    /\ jobPc[j] = "dividir"
    /\ \/ \E n \in {1, MaxPartes} :
            /\ partePc' = [partePc EXCEPT ![j] = [p \in 1..n |-> "aguardando"]]
            /\ semaphore_partes' =
                   [semaphore_partes EXCEPT ![j] = SemaphorePartes(max_workers)]
            /\ jobPc' = [jobPc EXCEPT ![j] = "gather"]
            /\ UNCHANGED semaphore_arquivos
       \/ /\ jobPc' = [jobPc EXCEPT ![j] = "retornou"]
          /\ semaphore_arquivos' = SemaphoreExit(semaphore_arquivos, TRUE)
          /\ UNCHANGED <<partePc, semaphore_partes>>
    /\ UNCHANGED <<lotePc, html_files, max_arquivos_simultaneos, max_workers>>
    /\ UNCHANGED foraDoPool

\* task_with_semaphore of part p of job j enters "async with semaphore" and
\* the first generation call is issued
AdquireParte(j, p) ==
    /\ jobPc[j] = "gather"
    /\ partePc[j][p] = "aguardando"
    /\ ~SemaphoreLocked(semaphore_partes[j])
    /\ semaphore_partes' = [semaphore_partes EXCEPT ![j] = @ - 1]
    /\ partePc' = [partePc EXCEPT ![j][p] = "gerando"]
    /\ UNCHANGED <<jobPc, semaphore_arquivos, lotePc, html_files,
                   max_arquivos_simultaneos, max_workers>>
    /\ UNCHANGED foraDoPool

\* a call of part p of job j returns or raises: the evaluation call follows
\* a generation, another generation follows a rejection or a failure before
\* the last attempt, and otherwise the task returns and leaves
\* "async with semaphore"
ChamadaTermina(j, p) ==
    /\ jobPc[j] = "gather"
    /\ partePc[j][p] \in EmChamada
    /\ \/ /\ partePc[j][p] = "gerando"
          /\ partePc' = [partePc EXCEPT ![j][p] = "revisando"]
          /\ UNCHANGED semaphore_partes
       \/ /\ partePc[j][p] = "revisando"
          /\ partePc' = [partePc EXCEPT ![j][p] = "gerando"]
          /\ UNCHANGED semaphore_partes
       \/ /\ partePc' = [partePc EXCEPT ![j][p] = "retornou"]
          /\ semaphore_partes' =
                 [semaphore_partes EXCEPT ![j] = SemaphoreExit(@, FALSE)]
    /\ UNCHANGED <<jobPc, semaphore_arquivos, lotePc, html_files,
                   max_arquivos_simultaneos, max_workers>>
    /\ UNCHANGED foraDoPool

\* the gather of the parts resumes; aggregation, save, and
\* execute_graph_parallel returns, leaving "async with semaphore"
RetornaJob(j) ==
    /\ jobPc[j] = "gather"
    /\ \A p \in DOMAIN partePc[j] : partePc[j][p] = "retornou"
    /\ jobPc' = [jobPc EXCEPT ![j] = "retornou"]
    /\ semaphore_arquivos' = SemaphoreExit(semaphore_arquivos, FALSE)
    /\ UNCHANGED <<partePc, semaphore_partes, lotePc, html_files,
                   max_arquivos_simultaneos, max_workers>>
    /\ UNCHANGED foraDoPool

\* the gather of the batch resumes and the list of results is returned
RetornaLote ==
    /\ lotePc = "gather"
    /\ \A j \in DOMAIN jobPc : jobPc[j] = "retornou"
    /\ lotePc' = "fim"
    /\ UNCHANGED <<jobPc, partePc, semaphore_partes, semaphore_arquivos,
                   html_files, max_arquivos_simultaneos, max_workers>>
    /\ UNCHANGED foraDoPool

\* a request with 1..MaxArquivos files, max_concurrent_files in
\* 1..MaxSimultaneos and max_workers 1 or MaxWorkers
InitPool ==
    /\ max_tentativas = MaxTentativas
    /\ max_workers \in {1, MaxWorkers}
    /\ llm_ok = TRUE
    /\ DocInicial
    /\ html_files \in 1..MaxArquivos
    /\ max_arquivos_simultaneos \in 1..MaxSimultaneos
    /\ LoteInicial
    /\ GrafoInicial
    /\ DemaisIniciais

NextPool ==
    \/ IniciarJobs
    \/ \E j \in DOMAIN jobPc : AdquireJob(j)
    \/ \E j \in DOMAIN jobPc : FanOut(j)
    \/ \E j \in DOMAIN jobPc : \E p \in DOMAIN partePc[j] : AdquireParte(j, p)
    \/ \E j \in DOMAIN jobPc : \E p \in DOMAIN partePc[j] : ChamadaTermina(j, p)
    \/ \E j \in DOMAIN jobPc : RetornaJob(j)
    \/ RetornaLote

PoolSpec == InitPool /\ [][NextPool]_vars

\* C38: in a batch with max_arquivos_simultaneos = d and max_workers = w the
\* generation and evaluation calls in flight over the whole batch never
\* exceed d * w, and the two semaphores never block the batch: until the
\* batch has returned, some task can always take a step.
C38_DoisPools ==
    /\ Cardinality(ChamadasEmVoo) <= max_arquivos_simultaneos * max_workers
    /\ lotePc # "fim" => ENABLED NextPool

\* the product bound is reached (d * w >= 2 calls in flight) while a job or
\* a part waits for a permit
C38_Witness ==
    /\ max_arquivos_simultaneos * max_workers >= 2
    /\ Cardinality(ChamadasEmVoo) = max_arquivos_simultaneos * max_workers
    /\ \/ \E j \in DOMAIN jobPc : jobPc[j] = "aguardando"
       \/ \E j \in DOMAIN jobPc :
             /\ jobPc[j] = "gather"
             /\ \E p \in DOMAIN partePc[j] : partePc[j][p] = "aguardando"

\* the part numbers of the files the route lists in files_generated for a
\* document it reports as successful: the entries with parte.get("aprovado")
ArquivosGerados ==
    {partes_processadas[i].parte_numero :
        i \in {k \in 1..Len(partes_processadas) : partes_processadas[k].aprovado}}

\* C39: in parallel mode the artifact files the API reports in
\* files_generated for a document are exactly the files the save stage wrote
\* for it; in particular no file is written for a part whose result is not
\* approved.
C39_ArquivosReportados ==
    (docPc = "done" /\ status \in {"concluido", "parcial"}) =>
        arquivos_salvos = ArquivosGerados

\* active_connections holds no connection twice
SemRepeticao ==
    \A i, j \in 1..Len(active_connections) :
        active_connections[i] = active_connections[j] => i = j

\* C40: a broadcast attempts delivery to every connection that was active
\* when it started and is still active when it returns, whatever connect and
\* disconnect did while it was suspended in a send; and active_connections
\* never holds a connection twice nor a connection that disconnect was
\* called with.
C40_BroadcastIntercalado ==
    [][/\ BroadcastRetorna =>
              \A c \in ativas_no_inicio : Ativa(c)' => c \in tentadas
       /\ SemRepeticao'
       /\ \A c \in desconectadas' : ~Ativa(c)']_vars

====
